---- MODULE Spec2Model ----
(***************************************************************************)
(* Model of the PortfolioTracker position ledger                           *)
(* (src/src/contracts/PortfolioTracker.sol).                               *)
(*                                                                         *)
(* State: the two storage mappings userPositions and positionCount, the    *)
(* event log of the contract, the block timestamp, and the outcome of the  *)
(* last transaction (sender, function, argument, revert reason or return   *)
(* value).  Every external function is one action; a reverted call leaves  *)
(* storage and the log untouched and only records its revert reason.       *)
(* Ledger indices are 0-based as in Solidity; TLA+ sequences are 1-based,  *)
(* so ledger index i lives at sequence position i + 1.                     *)
(* uint256 arithmetic is checked (pragma ^0.8.17): the decrement of a zero *)
(* counter panics; the increment cannot reach 2^256 within the bounds.     *)
(***************************************************************************)
EXTENDS Integers, Sequences, FiniteSets, TLC

VARIABLES userPositions, positionCount, events, now, lastCall

vars == <<userPositions, positionCount, events, now, lastCall>>

\* ContractService (src/src/services/contractService.ts): the build flag
\* import.meta.env.DEV, the configured ledger addresses, the fields signer
\* and contract of the singleton, and the outcome of the last call on it
VARIABLES dev, contractAddresses, signer, contract, svcCall

serviceVars == <<dev, contractAddresses, signer, contract, svcCall>>

\* BlockchainService (src/src/server/lib/blockchain.ts): the providers and
\* the token cache of the singleton, the calls made on it (in flight and
\* finished), and the chain state its reads return
VARIABLES providers, tokenCache, calls, supply, reserves

chainVars == <<providers, tokenCache, calls, supply, reserves>>

\* everything outside the ledger
\* formatTokenAmount: its arguments and what it returned
VARIABLES fmtAmount, fmtDecimals, fmtResult

formatVars == <<fmtAmount, fmtDecimals, fmtResult>>

\* GraphService (src/src/server/lib/blockchain.ts): the calls made on it
VARIABLES graphCalls

graphVars == <<graphCalls>>

\* MetricsService (src/src/server/lib/metrics.ts): the calls made on it
VARIABLES metricsCalls

metricsVars == <<metricsCalls>>

\* usePortfolio (src/unnamed/part_001): the state of the hook, the requests
\* it has in flight, the mutation it is carrying out, and the positions the
\* backend holds for the wallet
VARIABLES walletAddress, hookChainId, portfolioData, hookPositions, hookMetrics,
          timeframe, loading, hookError, isContractConnected,
          fetches, started, anyFailed, mutation, mutations, book

hookVars == <<walletAddress, hookChainId, portfolioData, hookPositions, hookMetrics,
              timeframe, loading, hookError, isContractConnected,
              fetches, started, anyFailed, mutation, mutations, book>>

\* the components above the chain access layer
clientVars == <<graphVars, metricsVars, hookVars>>

otherVars == <<serviceVars, chainVars, formatVars, clientVars>>

allVars == <<vars, otherVars>>

\* ---------------------------------------------------------------- bounds
MaxEvents == 3      \* successful transactions explored
MaxTime == 2        \* block timestamps explored

\* ---------------------------------------------------------------- inputs
Owners == {1, 2}                    \* msg.sender / _user addresses
Tokens == {0, 7}                    \* _token, address(0) included
Amounts == {2}                      \* _amount
EntryPrices == {3}                  \* _entryPrice
NewAmounts == {0, 5}                \* _newAmount
NewEntryPrices == {6}               \* _newEntryPrice
Protocols == {"Aave", "Uniswap"}    \* _protocol

\* ---------------------------------------------------------------- types
Position(token, amount, entryPrice, timestamp, protocol, active) ==
    [token |-> token, amount |-> amount, entryPrice |-> entryPrice,
     timestamp |-> timestamp, protocol |-> protocol, active |-> active]

\* the default value of a Position slot of a freshly allocated memory array
ZeroPosition == Position(0, 0, 0, 0, "", FALSE)

PositionAdded(user, positionId, token, amount, entryPrice, protocol) ==
    [name |-> "PositionAdded", user |-> user, positionId |-> positionId,
     token |-> token, amount |-> amount, entryPrice |-> entryPrice,
     protocol |-> protocol]

PositionRemoved(user, positionId) ==
    [name |-> "PositionRemoved", user |-> user, positionId |-> positionId]

PositionUpdated(user, positionId, newAmount, newEntryPrice) ==
    [name |-> "PositionUpdated", user |-> user, positionId |-> positionId,
     newAmount |-> newAmount, newEntryPrice |-> newEntryPrice]

\* outcome of a transaction: status is "ok" or the revert reason
Call(op, sender, positionId, status, ret) ==
    [op |-> op, sender |-> sender, positionId |-> positionId,
     status |-> status, ret |-> ret]

\* ---------------------------------------------------------------- client binding
\* this.signer === null / this.contract === null
NoSigner == 0
NoContract == [address |-> "null", signer |-> NoSigner]

\* new ethers.Contract(address, TrackerABI.abi, this.signer)
Contract(address, account) == [address |-> address, signer |-> account]

\* outcome of a call on the service: status is "ok" or the message thrown
SvcCall(op, chainId, token, protocol, amount, entryPrice, positionIndex, status) ==
    [op |-> op, chainId |-> chainId, token |-> token, protocol |-> protocol,
     amount |-> amount, entryPrice |-> entryPrice,
     positionIndex |-> positionIndex, status |-> status]

NoSvcCall == SvcCall("none", "", 0, "", "", "", 0, "ok")

\* the singleton right after its constructor
ServiceConstructed ==
    /\ signer = NoSigner
    /\ contract = NoContract
    /\ svcCall = NoSvcCall

\* a production build without any configured address
NoEnvironment ==
    /\ dev = FALSE
    /\ contractAddresses = [c \in {} |-> ""]

\* the ledger after deployment
LedgerDeployed ==
    /\ userPositions = [o \in Owners |-> <<>>]
    /\ positionCount = [o \in Owners |-> 0]
    /\ events = <<>>
    /\ now = 1
    /\ lastCall = Call("none", 0, 0, "ok", 0)

\* ---------------------------------------------------------------- chain access
ChainNetworks == {"ethereum", "polygon", "arbitrum"}   \* network
ChainTokens == {"0xT1", "0xT2"}             \* tokenAddress
Supplies == {100, 200}                      \* totalSupply() of a token
Reserves == {10, 20}                        \* pool reserves / account data

\* a BlockchainService of a process without any RPC url, never called
\* a Number, written in decimal: integer digits without leading zeros and
\* fraction digits without trailing zeros
Number(int, frac) == [int |-> int, frac |-> frac]

NotFormatted == Number(<<>>, <<>>)

NoFormatting ==
    /\ fmtAmount = <<"0">>
    /\ fmtDecimals = 0
    /\ fmtResult = NotFormatted

NoGraphCalls == graphCalls = <<>>

NoMetricsCalls == metricsCalls = <<>>

NoAddress == "null"
NoChain == 0
NoPortfolio == [totalValue |-> 0, activePositions |-> 0, networks |-> {},
                riskScore |-> [num |-> 0, den |-> 0], positions |-> <<>>,
                metrics |-> <<>>]
NoError == "null"
NoMutation == [op |-> "none", pc |-> "idle", address |-> NoAddress, chainId |-> NoChain,
               timeframe |-> ""]

\* the useState initial values (lines 149-157)
HookMounted ==
    /\ walletAddress = NoAddress
    /\ hookChainId = NoChain
    /\ portfolioData = NoPortfolio
    /\ hookPositions = <<>>
    /\ hookMetrics = <<>>
    /\ timeframe = "1m"
    /\ loading = FALSE
    /\ hookError = NoError
    /\ isContractConnected = FALSE
    /\ fetches = {}
    /\ started = 0
    /\ anyFailed = FALSE
    /\ mutation = NoMutation
    /\ mutations = 0

NoHook == HookMounted /\ book = <<>>

NoClients == NoGraphCalls /\ NoMetricsCalls /\ NoHook

NoChainAccess ==
    /\ providers = {}
    /\ tokenCache = [k \in {} |-> 0]
    /\ calls = <<>>
    /\ supply = [k \in ChainNetworks \X ChainTokens |-> 100]
    /\ reserves = 10

Init ==
    /\ LedgerDeployed
    /\ NoEnvironment
    /\ ServiceConstructed
    /\ NoChainAccess
    /\ NoFormatting
    /\ NoClients

\* a reverted transaction: storage and log roll back
Revert(op, sender, positionId, reason) ==
    /\ lastCall' = Call(op, sender, positionId, reason, 0)
    /\ UNCHANGED <<userPositions, positionCount, events, now>>

validPositionId_rangeOnly(sender, positionId) ==
    IF ~(positionId < Len(userPositions[sender])) THEN "Invalid position ID"
    ELSE "ok"

\* modifier validPositionId: "ok" or the reason of the first failing require
validPositionId(sender, positionId) ==
    IF ~(positionId < Len(userPositions[sender])) THEN "Invalid position ID"
    ELSE IF ~userPositions[sender][positionId + 1].active THEN "Position is not active"
    ELSE "ok"

\* line 63: the index of the position just pushed
lastIndex_offByOne(positions) == Len(positions)

lastIndex(positions) == Len(positions) - 1

addPosition_noIncrement(sender, token, amount, entryPrice, protocol) ==
    /\ Len(events) < MaxEvents
    /\ LET newPosition == Position(token, amount, entryPrice, now, protocol, TRUE)
           pushed == Append(userPositions[sender], newPosition)
           positionId == lastIndex(pushed)
       IN /\ userPositions' = [userPositions EXCEPT ![sender] = pushed]
          /\ events' = Append(events, PositionAdded(sender, positionId, token,
                                                    amount, entryPrice, protocol))
          /\ lastCall' = Call("addPosition", sender, positionId, "ok", positionId)
    /\ UNCHANGED <<positionCount, now>>

addPosition(sender, token, amount, entryPrice, protocol) ==
    /\ Len(events) < MaxEvents
    /\ LET newPosition == Position(token, amount, entryPrice, now, protocol, TRUE)
           pushed == Append(userPositions[sender], newPosition)
           positionId == lastIndex(pushed)
       IN /\ userPositions' = [userPositions EXCEPT ![sender] = pushed]
          /\ positionCount' = [positionCount EXCEPT ![sender] = @ + 1]
          /\ events' = Append(events, PositionAdded(sender, positionId, token,
                                                    amount, entryPrice, protocol))
          /\ lastCall' = Call("addPosition", sender, positionId, "ok", positionId)
    /\ UNCHANGED now

softDelete_hardDelete(positions, positionId) ==
    SubSeq(positions, 1, positionId) \o SubSeq(positions, positionId + 2, Len(positions))

softDelete_lastSlot(positions, positionId) ==
    [positions EXCEPT ![Len(positions)].active = FALSE]

softDelete_erase(positions, positionId) ==
    [positions EXCEPT ![positionId + 1] = ZeroPosition]

\* line 78: the soft delete of one stored position
softDelete(positions, positionId) ==
    [positions EXCEPT ![positionId + 1].active = FALSE]

removePosition_noDecrement(sender, positionId) ==
    LET reason == validPositionId(sender, positionId)
    IN IF reason # "ok" THEN Revert("removePosition", sender, positionId, reason)
       ELSE /\ Len(events) < MaxEvents
            /\ userPositions' = [userPositions EXCEPT
                                   ![sender] = softDelete(@, positionId)]
            /\ events' = Append(events, PositionRemoved(sender, positionId))
            /\ lastCall' = Call("removePosition", sender, positionId, "ok", 0)
            /\ UNCHANGED <<positionCount, now>>

removePosition_unscoped(sender, positionId) ==
    LET reason == validPositionId(sender, positionId)
    IN IF reason # "ok" THEN Revert("removePosition", sender, positionId, reason)
       ELSE IF positionCount[sender] = 0
       THEN Revert("removePosition", sender, positionId, "Panic(0x11)")
       ELSE /\ Len(events) < MaxEvents
            /\ userPositions' = [o \in Owners |->
                                   IF positionId < Len(userPositions[o])
                                   THEN softDelete(userPositions[o], positionId)
                                   ELSE userPositions[o]]
            /\ positionCount' = [positionCount EXCEPT ![sender] = @ - 1]
            /\ events' = Append(events, PositionRemoved(sender, positionId))
            /\ lastCall' = Call("removePosition", sender, positionId, "ok", 0)
            /\ UNCHANGED now

removePosition_noEvent(sender, positionId) ==
    LET reason == validPositionId(sender, positionId)
    IN IF reason # "ok" THEN Revert("removePosition", sender, positionId, reason)
       ELSE IF positionCount[sender] = 0
       THEN Revert("removePosition", sender, positionId, "Panic(0x11)")
       ELSE /\ Len(events) < MaxEvents
            /\ userPositions' = [userPositions EXCEPT
                                   ![sender] = softDelete(@, positionId)]
            /\ positionCount' = [positionCount EXCEPT ![sender] = @ - 1]
            /\ lastCall' = Call("removePosition", sender, positionId, "ok", 0)
            /\ UNCHANGED <<events, now>>

removePosition(sender, positionId) ==
    LET reason == validPositionId(sender, positionId)
    IN IF reason # "ok" THEN Revert("removePosition", sender, positionId, reason)
       ELSE IF positionCount[sender] = 0
       THEN Revert("removePosition", sender, positionId, "Panic(0x11)")
       ELSE /\ Len(events) < MaxEvents
            /\ userPositions' = [userPositions EXCEPT
                                   ![sender] = softDelete(@, positionId)]
            /\ positionCount' = [positionCount EXCEPT ![sender] = @ - 1]
            /\ events' = Append(events, PositionRemoved(sender, positionId))
            /\ lastCall' = Call("removePosition", sender, positionId, "ok", 0)
            /\ UNCHANGED now

overwrite_swapped(positions, positionId, newAmount, newEntryPrice) ==
    [positions EXCEPT ![positionId + 1].amount = newEntryPrice,
                      ![positionId + 1].entryPrice = newAmount]

\* lines 96-98: the two field writes through the storage reference
overwrite(positions, positionId, newAmount, newEntryPrice) ==
    [positions EXCEPT ![positionId + 1].amount = newAmount,
                      ![positionId + 1].entryPrice = newEntryPrice]

updatePosition(sender, positionId, newAmount, newEntryPrice) ==
    LET reason == validPositionId(sender, positionId)
    IN IF reason # "ok" THEN Revert("updatePosition", sender, positionId, reason)
       ELSE /\ Len(events) < MaxEvents
            /\ userPositions' = [userPositions EXCEPT
                                   ![sender] = overwrite(@, positionId, newAmount,
                                                         newEntryPrice)]
            /\ events' = Append(events, PositionUpdated(sender, positionId,
                                                        newAmount, newEntryPrice))
            /\ lastCall' = Call("updatePosition", sender, positionId, "ok", 0)
            /\ UNCHANGED <<positionCount, now>>

\* ---------------------------------------------------------------- views
\* a view either returns a value or reverts
Returned(value) == [ok |-> TRUE, value |-> value]
Reverted(reason) == [ok |-> FALSE, value |-> reason]

getPosition(user, positionId) ==
    IF ~(positionId < Len(userPositions[user])) THEN Reverted("Invalid position ID")
    ELSE Returned(userPositions[user][positionId + 1])

RECURSIVE copyActive_loopIndex(_, _, _, _)
copyActive_loopIndex(stored, i, currentIndex, activePositions) ==
    IF ~(i < Len(stored)) THEN Returned(activePositions)
    ELSE IF stored[i + 1].active
         THEN IF ~(i < Len(activePositions)) THEN Reverted("Panic(0x32)")
              ELSE copyActive_loopIndex(stored, i + 1, currentIndex + 1,
                              [activePositions EXCEPT ![i + 1] = stored[i + 1]])
         ELSE copyActive_loopIndex(stored, i + 1, currentIndex, activePositions)

\* the loop of getAllPositions from iteration i on; writing past the end of
\* the memory array panics
RECURSIVE copyActive(_, _, _, _)
copyActive(stored, i, currentIndex, activePositions) ==
    IF ~(i < Len(stored)) THEN Returned(activePositions)
    ELSE IF stored[i + 1].active
         THEN IF ~(currentIndex < Len(activePositions)) THEN Reverted("Panic(0x32)")
              ELSE copyActive(stored, i + 1, currentIndex + 1,
                              [activePositions EXCEPT ![currentIndex + 1] = stored[i + 1]])
         ELSE copyActive(stored, i + 1, currentIndex, activePositions)

getAllPositions(user) ==
    LET activeCount == positionCount[user]
        activePositions == [k \in 1..activeCount |-> ZeroPosition]
    IN copyActive(userPositions[user], 0, 0, activePositions)

getPositionCount(user) == positionCount[user]

\* ledger indices tried by a caller: every stored one and the first beyond the end
PositionIds(sender) == 0..Len(userPositions[sender])

\* block.timestamp moves on between blocks
Tick ==
    /\ now < MaxTime
    /\ now' = now + 1
    /\ UNCHANGED <<userPositions, positionCount, events, lastCall>>

Next ==
    \/ /\ \E s \in Owners, t \in Tokens, a \in Amounts, e \in EntryPrices, p \in Protocols :
             addPosition(s, t, a, e, p)
       /\ UNCHANGED otherVars
    \/ /\ \E s \in Owners : \E id \in PositionIds(s) : removePosition(s, id)
       /\ UNCHANGED otherVars
    \/ /\ \E s \in Owners : \E id \in PositionIds(s), a \in NewAmounts, e \in NewEntryPrices :
             updatePosition(s, id, a, e)
       /\ UNCHANGED otherVars
    \/ /\ Tick
       /\ UNCHANGED otherVars

Spec == Init /\ [][Next]_allVars

\* ---------------------------------------------------------------- history
\* what the event log says about the past of the ledger
EverAdded(o) ==
    Cardinality({k \in 1..Len(events) :
                    events[k].name = "PositionAdded" /\ events[k].user = o})

WasAdded(o, id) ==
    \E k \in 1..Len(events) :
       events[k].name = "PositionAdded" /\ events[k].user = o /\ events[k].positionId = id

WasRemoved(o, id) ==
    \E k \in 1..Len(events) : events[k] = PositionRemoved(o, id)

\* every ledger index a caller can name within the bounds
Ids == 0..(MaxEvents + 1)

\* the step is a transaction sent by s (a repeated identical revert stutters)
CallStep(s) ==
    /\ lastCall' # lastCall \/ events' # events
    /\ lastCall'.sender = s

\* the step is the successful call op(id, ...) sent by s
Succeeded(op, s, id) ==
    /\ events' # events
    /\ lastCall'.op = op /\ lastCall'.sender = s /\ lastCall'.positionId = id
    /\ lastCall'.status = "ok"

\* the step is the reverted call op(id, ...) sent by s
Failed(op, s, id) ==
    /\ lastCall' # lastCall
    /\ lastCall'.op = op /\ lastCall'.sender = s /\ lastCall'.positionId = id
    /\ lastCall'.status # "ok"

ActiveIndices(o) == {i \in 1..Len(userPositions[o]) : userPositions[o][i].active}

\* the fields that never change once a position is stored
SameIdentity(p, q) ==
    p.token = q.token /\ p.timestamp = q.timestamp /\ p.protocol = q.protocol

\* ---------------------------------------------------------------- claims

\* C1: in every step, for every owner, the ledger never shrinks, a position
\* that is inactive stays inactive, and a position that comes into existence
\* is active: nonexistent -> active -> inactive, never back.
C1_Lifecycle ==
    [][\A o \in Owners :
          /\ Len(userPositions'[o]) >= Len(userPositions[o])
          /\ \A i \in 1..Len(userPositions[o]) :
                ~userPositions[o][i].active => ~userPositions'[o][i].active
          /\ \A i \in (Len(userPositions[o]) + 1)..Len(userPositions'[o]) :
                userPositions'[o][i].active]_vars

\* an owner holds a removed position and has just tried to update it
C1_Witness ==
    \E o \in Owners :
       /\ Len(userPositions[o]) >= 1 /\ ~userPositions[o][1].active
       /\ lastCall = Call("updatePosition", o, 0, "Position is not active", 0)

\* C2: a position whose removal is on record is stored, and no element of
\* the array getAllPositions returns for its owner is that stored position.
C2_RemovedNeverListed ==
    \A o \in Owners : \A id \in Ids :
       WasRemoved(o, id) =>
          /\ id < Len(userPositions[o])
          /\ LET r == getAllPositions(o)
             IN r.ok => \A k \in 1..Len(r.value) : r.value[k] # userPositions[o][id + 1]

\* a removal is on record, later transactions followed, and the owner still
\* has a position that getAllPositions lists
C2_Witness ==
    \E o \in Owners :
       /\ WasRemoved(o, 0)
       /\ events[Len(events)].name # "PositionRemoved"
       /\ getAllPositions(o).ok /\ Len(getAllPositions(o).value) >= 1

\* C3: positionCount[owner] is the number of stored positions of the owner
\* whose active flag is true, and no call ever hit the underflow panic of
\* the checked decrement.
C3_CountIsActive ==
    /\ \A o \in Owners : positionCount[o] = Cardinality(ActiveIndices(o))
    /\ lastCall.status # "Panic(0x11)"

\* an owner with an active and a removed position whose last call reverted
C3_Witness ==
    \E o \in Owners :
       /\ lastCall.sender = o /\ lastCall.status # "ok"
       /\ ActiveIndices(o) # {} /\ Cardinality(ActiveIndices(o)) < Len(userPositions[o])

\* C4: getAllPositions returns (it does not write past the end), its length
\* is getPositionCount, every slot holds a stored active position and none is
\* the default slot; right after removePosition(0) on a one-position owner
\* the count is 0 and the array is empty.
C4_CountMatchesList ==
    \A o \in Owners :
       LET r == getAllPositions(o)
       IN /\ r.ok
          /\ getPositionCount(o) = Len(r.value)
          /\ \A k \in 1..Len(r.value) :
                /\ r.value[k] # ZeroPosition
                /\ r.value[k].active
                /\ \E i \in 1..Len(userPositions[o]) : userPositions[o][i] = r.value[k]
          /\ (lastCall = Call("removePosition", o, 0, "ok", 0) /\ Len(userPositions[o]) = 1
                => getPositionCount(o) = 0 /\ r.value = <<>>)

\* removePosition(0) has just succeeded on an owner with exactly one position
C4_Witness ==
    \E o \in Owners :
       /\ lastCall = Call("removePosition", o, 0, "ok", 0)
       /\ Len(userPositions[o]) = 1
       /\ ~userPositions[o][1].active

\* C5: a successful addPosition returns the number of positions its sender
\* had added before, and stores the new position at that index; in every
\* step each stored position stays at its index (its token, timestamp and
\* protocol are unchanged there).
C5_IndexIsAppendOrder ==
    [][\A o \in Owners :
          /\ \A id \in Ids :
                Succeeded("addPosition", o, id) =>
                   /\ lastCall'.ret = EverAdded(o)
                   /\ lastCall'.ret = Len(userPositions[o])
                   /\ Len(userPositions'[o]) = lastCall'.ret + 1
                   /\ userPositions'[o][Len(userPositions'[o])].active
          /\ \A i \in 1..Len(userPositions[o]) :
                /\ i <= Len(userPositions'[o])
                /\ SameIdentity(userPositions[o][i], userPositions'[o][i])]_vars

\* an owner added a position after removing an earlier one: the new position
\* got index 1, the removed one still sits at index 0
C5_Witness ==
    \E o \in Owners :
       /\ lastCall = Call("addPosition", o, 1, "ok", 1)
       /\ WasRemoved(o, 0)
       /\ Len(userPositions[o]) = 2 /\ ~userPositions[o][1].active

\* the step is a call op(id, ...) sent by s, successful or reverted
Called(op, s, id) ==
    /\ lastCall' # lastCall \/ events' # events
    /\ lastCall'.op = op /\ lastCall'.sender = s /\ lastCall'.positionId = id

LedgerUnchanged == UNCHANGED <<userPositions, positionCount, events>>

\* C6: removePosition(id) reverts with "Invalid position ID" when id is not
\* below the number of positions the sender ever added, and with "Position
\* is not active" when the removal of (sender, id) is already on record; in
\* both cases positions, counts and the event log are unchanged.
C6_RemoveFailures ==
    [][\A s \in Owners : \A id \in Ids :
          Called("removePosition", s, id) =>
             /\ ~(id < EverAdded(s)) =>
                   lastCall'.status = "Invalid position ID" /\ LedgerUnchanged
             /\ WasRemoved(s, id) =>
                   lastCall'.status = "Position is not active" /\ LedgerUnchanged]_vars

\* a second removePosition of the same index has just been rejected
C6_Witness ==
    \E o \in Owners :
       /\ lastCall = Call("removePosition", o, 0, "Position is not active", 0)
       /\ WasRemoved(o, 0)

\* C7: a successful removePosition(id) found the position active, changes
\* in the whole ledger only that position's active flag and the sender's
\* count (minus one), and getPosition still returns the position with all
\* other fields as before.
C7_RemoveFrame ==
    [][\A s \in Owners : \A id \in Ids :
          Succeeded("removePosition", s, id) =>
             /\ id < Len(userPositions[s])
             /\ userPositions[s][id + 1].active
             /\ userPositions' = [userPositions EXCEPT ![s][id + 1].active = FALSE]
             /\ positionCount' = [positionCount EXCEPT ![s] = @ - 1]
             /\ getPosition(s, id)'.ok
             /\ getPosition(s, id)'.value =
                   [userPositions[s][id + 1] EXCEPT !.active = FALSE]]_vars

\* a position was removed while its owner holds another one; its amount,
\* price and timestamp are still readable
C7_Witness ==
    \E o \in Owners :
       /\ lastCall = Call("removePosition", o, 0, "ok", 0)
       /\ Len(userPositions[o]) >= 2
       /\ getPosition(o, 0).ok
       /\ getPosition(o, 0).value.amount \in Amounts
       /\ getPosition(o, 0).value.entryPrice \in EntryPrices
       /\ getPosition(o, 0).value.timestamp >= 1
       /\ ~getPosition(o, 0).value.active

\* C8: a successful updatePosition(id, a, e) found the position stored and
\* active and changes in the whole ledger only its amount (to a) and its
\* entryPrice (to e); a call on an index out of range or inactive reverts,
\* and a reverted call changes nothing.
C8_UpdateFrame ==
    [][\A s \in Owners : \A id \in Ids :
          /\ Succeeded("updatePosition", s, id) =>
                /\ id < Len(userPositions[s])
                /\ userPositions[s][id + 1].active
                /\ \E a \in NewAmounts, e \in NewEntryPrices :
                      /\ events' = Append(events, PositionUpdated(s, id, a, e))
                      /\ userPositions' = [userPositions EXCEPT
                                             ![s][id + 1].amount = a,
                                             ![s][id + 1].entryPrice = e]
                /\ UNCHANGED positionCount
          /\ Called("updatePosition", s, id) =>
                /\ ~(id < Len(userPositions[s])) => lastCall'.status # "ok"
                /\ (id < Len(userPositions[s]) /\ ~userPositions[s][id + 1].active)
                      => lastCall'.status # "ok"
                /\ lastCall'.status # "ok" => LedgerUnchanged]_vars

\* an update has just rewritten amount and price of one of two positions
C8_Witness ==
    \E o \in Owners :
       /\ lastCall = Call("updatePosition", o, 0, "ok", 0)
       /\ Len(userPositions[o]) >= 2
       /\ userPositions[o][1].amount = 5 /\ userPositions[o][1].entryPrice = 6
       /\ userPositions[o][1].active

\* C9: getAllPositions(owner) returns exactly the stored positions of the
\* owner with active = true, in ledger-index order, each once.
C9_ListIsActiveSubsequence ==
    \A o \in Owners :
       /\ getAllPositions(o).ok
       /\ getAllPositions(o).value = SelectSeq(userPositions[o], LAMBDA p : p.active)

\* the first of two different positions was removed: the list is renumbered
C9_Witness ==
    \E o \in Owners :
       /\ Len(userPositions[o]) = 2
       /\ ~userPositions[o][1].active /\ userPositions[o][2].active
       /\ ~SameIdentity(userPositions[o][1], userPositions[o][2])
       /\ getAllPositions(o).ok
       /\ getAllPositions(o).value = <<userPositions[o][2]>>

\* C10: a transaction sent by a leaves the positions and the count of every
\* other owner unchanged, and a successful removePosition or updatePosition
\* by a acts on an index a itself added.
C10_SenderScoped ==
    [][\A a \in Owners :
          CallStep(a) =>
             /\ \A b \in Owners \ {a} :
                   /\ userPositions'[b] = userPositions[b]
                   /\ positionCount'[b] = positionCount[b]
             /\ \A id \in Ids :
                   (Succeeded("removePosition", a, id) \/ Succeeded("updatePosition", a, id))
                      => WasAdded(a, id)]_vars

\* owner 1 removed its index 0 while owner 2 holds an active position at
\* its own index 0
C10_Witness ==
    /\ lastCall = Call("removePosition", 1, 0, "ok", 0)
    /\ Len(userPositions[2]) >= 1
    /\ userPositions[2][1].active

\* the step is the successful call op(id, ...) sent by s, recognised without
\* looking at the event log alone
CallOk(op, s, id) ==
    /\ lastCall' # lastCall \/ userPositions' # userPositions \/ events' # events
    /\ lastCall'.op = op /\ lastCall'.sender = s /\ lastCall'.positionId = id
    /\ lastCall'.status = "ok"

\* the event is a PositionAdded with the owner, index, token, amount,
\* entryPrice and protocol of the stored position p
AddedEventOf(e, o, id, p) ==
    e = PositionAdded(o, id, p.token, p.amount, p.entryPrice, p.protocol)

\* the event also has a field with the entry timestamp of p
CarriesTimestamp(e, p) ==
    /\ "entryTimestamp" \in DOMAIN e
    /\ e.entryTimestamp = p.timestamp

\* one step of the log: nothing or one event is appended, a successful call
\* appends the event of its kind with its values, anything else appends none
LogMirrorsStep(withTimestamp) ==
    /\ events' # events => \E k \in 1..Len(events') : events' = Append(events, events'[k])
    /\ events' # events => lastCall'.status = "ok"
    /\ (lastCall' # lastCall /\ lastCall'.status # "ok") => events' = events
    /\ \A s \in Owners : \A id \in Ids :
          /\ CallOk("addPosition", s, id) =>
                /\ Len(events') = Len(events) + 1
                /\ id < Len(userPositions'[s])
                /\ SubSeq(events', 1, Len(events)) = events
                /\ AddedEventOf(events'[Len(events')], s, id, userPositions'[s][id + 1])
                /\ withTimestamp =>
                      CarriesTimestamp(events'[Len(events')], userPositions'[s][id + 1])
          /\ CallOk("removePosition", s, id) =>
                events' = Append(events, PositionRemoved(s, id))
          /\ CallOk("updatePosition", s, id) =>
                events' = Append(events, PositionUpdated(s, id,
                                            userPositions'[s][id + 1].amount,
                                            userPositions'[s][id + 1].entryPrice))

\* C12 as claimed: the log mirrors the successful mutations one to one and
\* in order, and PositionAdded carries all fields of the stored position,
\* the entry timestamp included.
C12_LogMirrorsWithTimestamp == [][LogMirrorsStep(TRUE)]_vars

\* C12 as amended: the same, with PositionAdded carrying owner, index, token,
\* amount, entryPrice and protocol of the stored position (no timestamp).
C12_LogMirrors == [][LogMirrorsStep(FALSE)]_vars

\* one owner's add, update and remove are on the log in that order, and a
\* rejected call followed without adding to it
C12_Witness ==
    /\ Len(events) = 3
    /\ events[1].name = "PositionAdded"
    /\ events[2].name = "PositionUpdated"
    /\ events[3].name = "PositionRemoved"
    /\ lastCall.status # "ok"

\* ================================================================
\* ContractService (src/src/services/contractService.ts)
\* ================================================================
\* Numbers are narrowed so that TLC can count them: a ledger word has UintBits
\* bits (256 in the contract) and parseEther scales by 10^EtherDecimals (18
\* in ethers).  Strings are TLA+ strings; Chars gives the characters of the
\* strings the callers pass, which is what the parsers of ethers work on.

UintBits == 8
MaxUint == 2^UintBits - 1
EtherDecimals == 1

\* ---------------------------------------------------------------- inputs
ChainIds == {"1", "10", "5"}                \* chainId; "5" is in no table
ServiceTokens == {7}                        \* token
ServiceProtocols == {"Aave", "7"}           \* protocol
AmountStrings == {"2", "0.5", "30"}         \* amount
PriceStrings == {"3", "30"}                 \* entryPrice
PositionIndexes == {0, 1}                   \* positionIndex

\* the ledger modelled by userPositions is deployed on chain "1"
LedgerAddress == "0xA1"
FALLBACK_DEV_ADDRESS == "0x1234567890123456789012345678901234567890"

fallbackAddresses ==
    [c \in {"1", "10", "137", "42161"} |-> FALLBACK_DEV_ADDRESS]

\* getContractAddresses: the chains whose environment variable is set
\* (VITE_CONTRACT_ADDRESS_1 set or not; the other chains are not configured)
Environments == {[c \in S |-> LedgerAddress] : S \in SUBSET {"1"}}

\* obj[key] of a JavaScript record: "" stands for undefined (falsy)
Lookup(table, key) == IF key \in DOMAIN table THEN table[key] ELSE ""

\* ---------------------------------------------------------------- strings
Chars(str) ==
    CASE str = "2" -> <<"2">>
      [] str = "3" -> <<"3">>
      [] str = "7" -> <<"7">>
      [] str = "30" -> <<"3", "0">>
      [] str = "0.5" -> <<"0", ".", "5">>
      [] str = "Aave" -> <<"A", "a", "v", "e">>
      [] OTHER -> <<>>

DigitChars == <<"0", "1", "2", "3", "4", "5", "6", "7", "8", "9">>

IsDigit(c) == \E d \in 1..10 : DigitChars[d] = c

DigitValue(c) == (CHOOSE d \in 1..10 : DigitChars[d] = c) - 1

\* the value of a string of decimal digits
RECURSIVE NatOf(_)
NatOf(digits) ==
    IF digits = <<>> THEN 0
    ELSE 10 * NatOf(SubSeq(digits, 1, Len(digits) - 1)) + DigitValue(digits[Len(digits)])

RECURSIVE Pow10(_)
Pow10(n) == IF n = 0 THEN 1 ELSE 10 * Pow10(n - 1)

\* a parser or coder either yields a value or throws
Yield(value) == [ok |-> TRUE, value |-> value, error |-> ""]
Throw(error) == [ok |-> FALSE, value |-> 0, error |-> error]

\* while (fraction[fraction.length - 1] === "0") fraction = fraction.substring(...)
RECURSIVE TrimTrailingZeros(_)
TrimTrailingZeros(fraction) ==
    IF fraction # <<>> /\ fraction[Len(fraction)] = "0"
    THEN TrimTrailingZeros(SubSeq(fraction, 1, Len(fraction) - 1))
    ELSE fraction

\* while (fraction.length < multiplier.length - 1) fraction += "0"
RECURSIVE PadZeros(_, _)
PadZeros(fraction, length) ==
    IF Len(fraction) < length THEN PadZeros(Append(fraction, "0"), length) ELSE fraction

\* ethers.utils.parseFixed(value, decimals)
parseFixed(value, decimals) ==
    LET negative == value # <<>> /\ value[1] = "-"
        body == IF negative THEN Tail(value) ELSE value
        dots == {i \in 1..Len(body) : body[i] = "."}
    IN IF body = <<>> \/ \E i \in 1..Len(body) : ~IsDigit(body[i]) /\ body[i] # "."
       THEN Throw("invalid decimal value")
       ELSE IF body = <<".">> THEN Throw("missing value")
       ELSE IF Cardinality(dots) > 1 THEN Throw("too many decimal points")
       ELSE LET dot == IF dots = {} THEN Len(body) + 1 ELSE CHOOSE i \in dots : TRUE
                comp0 == SubSeq(body, 1, dot - 1)
                comp1 == SubSeq(body, dot + 1, Len(body))
                whole == IF comp0 = <<>> THEN <<"0">> ELSE comp0
                trimmed == TrimTrailingZeros(IF comp1 = <<>> THEN <<"0">> ELSE comp1)
            IN IF Len(trimmed) > decimals
               THEN Throw("fractional component exceeds decimals")
               ELSE LET fraction == PadZeros(IF trimmed = <<>> THEN <<"0">> ELSE trimmed,
                                             decimals)
                        wei == NatOf(whole) * Pow10(decimals) + NatOf(fraction)
                    IN Yield(IF negative THEN 0 - wei ELSE wei)

\* ethers.utils.parseEther(ether)
parseEther(ether) == parseFixed(Chars(ether), EtherDecimals)

\* the uint256 coder of the ABI encoder on a number: the bounds check
encodeUint(v) ==
    IF v > MaxUint \/ v < 0 THEN Throw("value out-of-bounds") ELSE Yield(v)

\* the uint256 coder on a JavaScript string: BigNumber.from(string), then
\* the bounds check
encodeUintFromString(str) ==
    LET cs == Chars(str)
        negative == cs # <<>> /\ cs[1] = "-"
        body == IF negative THEN Tail(cs) ELSE cs
    IN IF body = <<>> \/ \E i \in 1..Len(body) : ~IsDigit(body[i])
       THEN Throw("invalid BigNumber string")
       ELSE encodeUint(IF negative THEN 0 - NatOf(body) ELSE NatOf(body))

\* the string coder on a BigNumber object: toUtf8Bytes walks value.length,
\* which a BigNumber does not have, and yields no bytes
encodeStringFromBigNumber(v) == ""

\* ---------------------------------------------------------------- methods
\* a call on the service that throws: only its outcome is recorded
ServiceThrows(call) ==
    /\ svcCall' = call
    /\ UNCHANGED <<dev, contractAddresses, signer, contract>>
    /\ UNCHANGED vars
    /\ UNCHANGED <<chainVars, formatVars, clientVars>>

initialize(account) ==
    /\ signer' = account
    /\ svcCall' = SvcCall("initialize", "", 0, "", "", "", 0, "ok")
    /\ UNCHANGED <<dev, contractAddresses, contract>>
    /\ UNCHANGED vars
    /\ UNCHANGED <<chainVars, formatVars, clientVars>>

Bound(address) == [address |-> address, error |-> ""]
Unbound(error) == [address |-> "", error |-> error]

resolveAddress_noDevCheck(chainId) ==
    LET configured == Lookup(contractAddresses, chainId)
        fallback == Lookup(fallbackAddresses, chainId)
    IN IF configured # "" THEN Bound(configured)
       ELSE IF fallback # "" THEN Bound(fallback)
       ELSE Unbound("Contract not deployed on chain")

\* lines 91-111: the address connectToContract binds, or the error it throws
resolveAddress(chainId) ==
    LET configured == Lookup(contractAddresses, chainId)
        fallback == Lookup(fallbackAddresses, chainId)
    IN IF configured # "" THEN Bound(configured)
       ELSE IF ~dev
       THEN Unbound("Contract not deployed on chain. Please set the environment variable.")
       ELSE IF fallback # "" THEN Bound(fallback)
       ELSE Unbound("Contract not deployed on chain")

connectToContract_unbindOnFailure(chainId) ==
    LET call(status) == SvcCall("connectToContract", chainId, 0, "", "", "", 0, status)
        resolved == resolveAddress(chainId)
    IN /\ contract' = IF signer = NoSigner \/ resolved.address = "" THEN NoContract
                      ELSE Contract(resolved.address, signer)
       /\ svcCall' = call(IF signer = NoSigner
                          THEN "Provider not initialized. Call initialize() first."
                          ELSE IF resolved.address = "" THEN resolved.error ELSE "ok")
       /\ UNCHANGED <<dev, contractAddresses, signer>>
       /\ UNCHANGED vars
       /\ UNCHANGED <<chainVars, formatVars, clientVars>>

connectToContract(chainId) ==
    LET call(status) == SvcCall("connectToContract", chainId, 0, "", "", "", 0, status)
        resolved == resolveAddress(chainId)
    IN IF signer = NoSigner
       THEN ServiceThrows(call("Provider not initialized. Call initialize() first."))
       ELSE IF resolved.address = "" THEN ServiceThrows(call(resolved.error))
       ELSE /\ contract' = Contract(resolved.address, signer)
            /\ svcCall' = call("ok")
            /\ UNCHANGED <<dev, contractAddresses, signer>>
            /\ UNCHANGED vars
            /\ UNCHANGED <<chainVars, formatVars, clientVars>>

isConnected == contract # NoContract

\* a transaction sent to an address without the ledger's code changes nothing
\* on the ledger
LedgerReached == contract.address = LedgerAddress
NoCodeReached == contract.address = FALLBACK_DEV_ADDRESS

\* ContractService.addPosition: this.contract.addPosition(token, protocol,
\* amountInWei, entryPriceInWei) binds its arguments by position to the
\* parameters (_token, _amount, _entryPrice, _protocol) of the ledger
ContractService_addPosition(token, protocol, amount, entryPrice) ==
    LET call(status) == SvcCall("addPosition", "", token, protocol, amount, entryPrice,
                                0, status)
        amountInWei == parseEther(amount)
        entryPriceInWei == parseEther(entryPrice)
        arg_amount == encodeUintFromString(protocol)
        arg_entryPrice == encodeUint(amountInWei.value)
        arg_protocol == encodeStringFromBigNumber(entryPriceInWei.value)
    IN IF contract = NoContract THEN ServiceThrows(call("Contract not connected"))
       ELSE IF ~amountInWei.ok THEN ServiceThrows(call(amountInWei.error))
       ELSE IF ~entryPriceInWei.ok THEN ServiceThrows(call(entryPriceInWei.error))
       ELSE IF ~arg_amount.ok THEN ServiceThrows(call(arg_amount.error))
       ELSE IF ~arg_entryPrice.ok THEN ServiceThrows(call(arg_entryPrice.error))
       ELSE \/ /\ LedgerReached
               /\ addPosition(contract.signer, token, arg_amount.value,
                              arg_entryPrice.value, arg_protocol)
               /\ svcCall' = call("ok")
               /\ UNCHANGED <<dev, contractAddresses, signer, contract>>
            \/ /\ NoCodeReached
               /\ svcCall' = call("ok")
               /\ UNCHANGED <<dev, contractAddresses, signer, contract>>
               /\ UNCHANGED vars

ContractService_removePosition(positionIndex) ==
    LET call(status) == SvcCall("removePosition", "", 0, "", "", "", positionIndex, status)
    IN IF contract = NoContract THEN ServiceThrows(call("Contract not connected"))
       ELSE \/ /\ LedgerReached
               /\ removePosition(contract.signer, positionIndex)
               /\ svcCall' = call(lastCall'.status)
               /\ UNCHANGED <<dev, contractAddresses, signer, contract>>
            \/ /\ NoCodeReached
               /\ svcCall' = call("ok")
               /\ UNCHANGED <<dev, contractAddresses, signer, contract>>
               /\ UNCHANGED vars

\* ContractService.getContract (lines 129-134)
getContract ==
    LET call(status) == SvcCall("getContract", "", 0, "", "", "", 0, status)
    IN IF contract = NoContract
       THEN ServiceThrows(call("Contract not connected. Call connectToContract() first."))
       ELSE /\ svcCall' = call("ok")
            /\ UNCHANGED <<dev, contractAddresses, signer, contract>>
            /\ UNCHANGED vars
            /\ UNCHANGED <<chainVars, formatVars, clientVars>>

\* ContractService.getUserPositions (lines 176-193): a view call; at an
\* address without code the answer is empty and cannot be decoded
ContractService_getUserPositions(userAddress) ==
    LET call(status) == SvcCall("getUserPositions", "", 0, "", "", "", 0, status)
    IN IF contract = NoContract THEN ServiceThrows(call("Contract not connected"))
       ELSE /\ svcCall' = call(IF LedgerReached THEN "ok" ELSE "call revert exception")
            /\ UNCHANGED <<dev, contractAddresses, signer, contract>>
            /\ UNCHANGED vars
            /\ UNCHANGED <<chainVars, formatVars, clientVars>>

\* any build, any set of configured chains
InitService ==
    /\ LedgerDeployed
    /\ dev \in BOOLEAN
    /\ contractAddresses \in Environments
    /\ ServiceConstructed
    /\ NoChainAccess
    /\ NoFormatting
    /\ NoClients

NextService ==
    \/ \E account \in Owners : initialize(account)
    \/ \E chainId \in ChainIds : connectToContract(chainId)
    \/ /\ \E t \in ServiceTokens, p \in ServiceProtocols, a \in AmountStrings,
             e \in PriceStrings :
             ContractService_addPosition(t, p, a, e)
       /\ UNCHANGED <<chainVars, formatVars, clientVars>>
    \/ /\ \E i \in PositionIndexes : ContractService_removePosition(i)
       /\ UNCHANGED <<chainVars, formatVars, clientVars>>
    \/ getContract
    \/ \E userAddress \in Owners : ContractService_getUserPositions(userAddress)

SpecService == InitService /\ [][NextService]_allVars

\* ---------------------------------------------------------------- claims

\* the step is the call op on the service
ServiceCalled(op) ==
    /\ svcCall' # svcCall \/ contract' # contract \/ vars' # vars
    /\ svcCall'.op = op

\* the decimal string is a number beyond the largest ledger word once scaled
ExceedsRange(decimal) == parseEther(decimal).ok /\ parseEther(decimal).value > MaxUint

\* C11: an addPosition on the connected service whose amount or entryPrice
\* exceeds the representable range fails with the out-of-bounds error of the
\* encoder and leaves the positions and the count of every owner unchanged.
C11_OverflowRejected ==
    [][(ServiceCalled("addPosition") /\ contract.address = LedgerAddress
          /\ (ExceedsRange(svcCall'.amount) \/ ExceedsRange(svcCall'.entryPrice)))
       => /\ svcCall'.status = "value out-of-bounds"
          /\ UNCHANGED <<userPositions, positionCount>>]_allVars

\* C13: when the ledger accepts an addPosition of the service, the position
\* appended for the sender has the token and the protocol passed, and amount
\* and entryPrice are the decimal strings passed, scaled.
C13_ArgumentsReachLedger ==
    [][(ServiceCalled("addPosition") /\ svcCall'.status = "ok" /\ events' # events)
       => LET o == contract.signer
              p == userPositions'[o][Len(userPositions'[o])]
          IN /\ Len(userPositions'[o]) = Len(userPositions[o]) + 1
             /\ p.token = svcCall'.token
             /\ p.protocol = svcCall'.protocol
             /\ p.amount = parseEther(svcCall'.amount).value
             /\ p.entryPrice = parseEther(svcCall'.entryPrice).value]_allVars

\* C14: connectToContract binds the placeholder address only in a
\* development build and for a chain without configured address; in a
\* production build a chain without configured address makes it throw and
\* leaves the bound contract as it was, which is never the placeholder.
C14_PlaceholderOnlyInDev ==
    [][\A c \in ChainIds :
          (ServiceCalled("connectToContract") /\ svcCall'.chainId = c) =>
             /\ (svcCall'.status = "ok" /\ contract'.address = FALLBACK_DEV_ADDRESS)
                   => (dev /\ Lookup(contractAddresses, c) = "")
             /\ (~dev /\ Lookup(contractAddresses, c) = "")
                   => /\ svcCall'.status # "ok"
                      /\ contract' = contract
                      /\ contract'.address # FALLBACK_DEV_ADDRESS]_allVars

\* a production build bound to the configured ledger has just refused to
\* connect to a chain without configured address
C14_Witness ==
    /\ ~dev
    /\ contract.address = LedgerAddress
    /\ svcCall = SvcCall("connectToContract", "10", 0, "", "", "", 0,
                         "Contract not deployed on chain. Please set the environment variable.")

\* ================================================================
\* BlockchainService (src/src/server/lib/blockchain.ts)
\* ================================================================
\* Node runs one task at a time: the part of a call up to its first await is
\* one step, and the arrival of one read result is one step that also runs
\* every continuation the result releases (await Promise.all resumes in the
\* microtasks of the same task).  Promise.all rejects with the first read
\* that fails and fulfils when the last read has returned.

MaxCalls == 3       \* calls made on the service by its callers
MaxPending == 6     \* reads in flight when a caller makes a call

PoolAddresses == {"0xP1"}                   \* poolAddress
LendingPools == {"0xL1"}                    \* poolAddress of a lending pool
Users == {"0xU1"}                           \* userAddress
RequestedTokens == {"0xT1"}                 \* tokenAddress asked for by callers
PoolNetworks == {"ethereum", "arbitrum"}    \* network of pool and lending calls
MintNetworks == {"ethereum"}                \* chains on which supply moves
MintedTokens == {"0xT1"}                    \* tokens whose supply moves

TokenReads == {"symbol", "decimals", "totalSupply"}
PoolReads == {"token0", "token1", "getReserves", "totalSupply"}
LendingReads == {"getUserAccountData", "getReserveData"}


\* what the contracts on the chains answer
symbolOf(network, address) ==
    IF network = "ethereum" THEN (IF address = "0xT1" THEN "AAA" ELSE "BBB")
    ELSE (IF address = "0xT1" THEN "PAA" ELSE "PBB")

decimalsOf(address) == IF address = "0xT1" THEN 18 ELSE 6

TokenInfo(address, symbol, decimals, totalSupply) ==
    [address |-> address, symbol |-> symbol, decimals |-> decimals,
     totalSupply |-> totalSupply]

cacheKey_addressOnly(network, tokenAddress) == <<"", tokenAddress>>

\* line 96: `${network}:${tokenAddress}`
cacheKey(network, tokenAddress) == <<network, tokenAddress>>

\* tokenCache.set(key, value)
MapSet(map, key, value) ==
    [k \in DOMAIN map \cup {key} |-> IF k = key THEN value ELSE map[k]]

\* a call on the service: where it stands, the reads it issued, the reads
\* still out, what the reads returned, and what the call returned or threw
CallRecord(kind, network, address, user, parent) ==
    [kind |-> kind, network |-> network, address |-> address, user |-> user,
     parent |-> parent, pc |-> "reads", pending |-> {}, issued |-> {},
     failed |-> FALSE, got |-> <<>>, sub |-> <<>>, status |-> "pending",
     result |-> <<>>]

Returns(c, value) ==
    [c EXCEPT !.pc = "done", !.pending = {}, !.status = "ok", !.result = value]

Throws(c, error) ==
    [c EXCEPT !.pc = "done", !.pending = {}, !.status = error]

Issues(c, reads, blank) ==
    [c EXCEPT !.pending = reads, !.issued = reads, !.got = blank]

\* getTokenInfo up to its await (lines 96-114), against the cache as it is
tokenCall(cache, tokenAddress, network, parent) ==
    LET c == CallRecord("getTokenInfo", network, tokenAddress, "", parent)
        key == cacheKey(network, tokenAddress)
    IN IF key \in DOMAIN cache THEN Returns(c, cache[key])
       ELSE IF network \notin providers
       THEN Throws(c, "Provider not found for network")
       ELSE Issues(c, TokenReads, [symbol |-> "", decimals |-> 0, totalSupply |-> 0])

poolCall_memo(poolAddress, network) ==
    LET c == CallRecord("getPoolInfo", network, poolAddress, "", 0)
        earlier == {i \in 1..Len(calls) : /\ calls[i].kind = "getPoolInfo"
                                          /\ calls[i].status = "ok"
                                          /\ calls[i].address = poolAddress
                                          /\ calls[i].network = network}
    IN IF network \notin providers
       THEN Throws(c, "Provider not found for network")
       ELSE IF earlier # {}
       THEN Returns(c, calls[CHOOSE i \in earlier : TRUE].result)
       ELSE Issues(c, PoolReads, [token0 |-> "", token1 |-> "", getReserves |-> 0,
                                  totalSupply |-> 0])

\* getPoolInfo up to its first await (lines 131-142)
poolCall(poolAddress, network) ==
    LET c == CallRecord("getPoolInfo", network, poolAddress, "", 0)
    IN IF network \notin providers
       THEN Throws(c, "Provider not found for network")
       ELSE Issues(c, PoolReads, [token0 |-> "", token1 |-> "", getReserves |-> 0,
                                  totalSupply |-> 0])

\* getLendingPoolInfo up to its await (lines 166-175)
lendingCall(poolAddress, userAddress, network) ==
    LET c == CallRecord("getLendingPoolInfo", network, poolAddress, userAddress, 0)
    IN IF network \notin providers
       THEN Throws(c, "Provider not found for network")
       ELSE Issues(c, LendingReads, [getUserAccountData |-> 0, getReserveData |-> 0])

\* the answer of the chain to one read of call c, at the time it answers
ChainRead(c, name) ==
    IF c.kind = "getTokenInfo"
    THEN (CASE name = "symbol" -> symbolOf(c.network, c.address)
            [] name = "decimals" -> decimalsOf(c.address)
            [] OTHER -> supply[<<c.network, c.address>>])
    ELSE IF c.kind = "getPoolInfo"
    THEN (CASE name = "token0" -> "0xT1"
            [] name = "token1" -> "0xT2"
            [] name = "getReserves" -> reserves
            [] OTHER -> 1000)
    ELSE reserves

\* the service between two steps: its calls and its cache
Service(cs, cache) == [calls |-> cs, cache |-> cache]

\* getPoolInfo after its second await (lines 149-162): it throws with the
\* first token lookup that failed and returns when both have returned
settlePoolTokens(st, j) ==
    LET c == st.calls[j]
        t0 == st.calls[c.sub[1]]
        t1 == st.calls[c.sub[2]]
    IN IF c.pc # "tokens" THEN st
       ELSE IF (t0.pc = "done" /\ t0.status # "ok") \/ (t1.pc = "done" /\ t1.status # "ok")
       THEN Service([st.calls EXCEPT ![j] = Throws(c, "Failed to fetch pool info")], st.cache)
       ELSE IF t0.pc = "done" /\ t1.pc = "done"
       THEN Service([st.calls EXCEPT ![j] =
                        Returns(c, [address |-> c.address, token0 |-> t0.result,
                                    token1 |-> t1.result, reserves |-> c.got.getReserves,
                                    totalSupply |-> c.got.totalSupply])],
                    st.cache)
       ELSE st

settleToken_cachePartial(st, i) ==
    LET c == st.calls[i]
        tokenInfo == TokenInfo(c.address, c.got.symbol, c.got.decimals, c.got.totalSupply)
        after ==
           IF c.failed
           THEN Service([st.calls EXCEPT ![i] = Throws(c, "Failed to fetch token info")],
                        MapSet(st.cache, cacheKey(c.network, c.address), tokenInfo))
           ELSE IF c.pending = {}
           THEN Service([st.calls EXCEPT ![i] = Returns(c, tokenInfo)],
                        MapSet(st.cache, cacheKey(c.network, c.address), tokenInfo))
           ELSE st
    IN IF c.parent = 0 THEN after ELSE settlePoolTokens(after, c.parent)

\* getTokenInfo after its await (lines 116-126), then the caller waiting for it
settleToken(st, i) ==
    LET c == st.calls[i]
        tokenInfo == TokenInfo(c.address, c.got.symbol, c.got.decimals, c.got.totalSupply)
        after ==
           IF c.failed
           THEN Service([st.calls EXCEPT ![i] = Throws(c, "Failed to fetch token info")],
                        st.cache)
           ELSE IF c.pending = {}
           THEN Service([st.calls EXCEPT ![i] = Returns(c, tokenInfo)],
                        MapSet(st.cache, cacheKey(c.network, c.address), tokenInfo))
           ELSE st
    IN IF c.parent = 0 THEN after ELSE settlePoolTokens(after, c.parent)

\* getPoolInfo after its first await (lines 144-147): both token lookups start
settlePoolReads(st, j) ==
    LET c == st.calls[j]
        n == Len(st.calls)
        t0 == tokenCall(st.cache, c.got.token0, c.network, j)
        t1 == tokenCall(st.cache, c.got.token1, c.network, j)
    IN IF c.failed
       THEN Service([st.calls EXCEPT ![j] = Throws(c, "Failed to fetch pool info")], st.cache)
       ELSE IF c.pending = {}
       THEN settlePoolTokens(
               Service([st.calls EXCEPT ![j] = [c EXCEPT !.pc = "tokens",
                                                         !.sub = <<n + 1, n + 2>>]]
                          \o <<t0, t1>>, st.cache), j)
       ELSE st

\* getLendingPoolInfo after its await (lines 177-195)
settleLending(st, i) ==
    LET c == st.calls[i]
    IN IF c.failed
       THEN Service([st.calls EXCEPT ![i] = Throws(c, "Failed to fetch lending pool info")],
                    st.cache)
       ELSE IF c.pending = {}
       THEN Service([st.calls EXCEPT ![i] =
                        Returns(c, [address |-> c.address,
                                    userMetrics |-> c.got.getUserAccountData,
                                    reserveMetrics |-> c.got.getReserveData])],
                    st.cache)
       ELSE st

settle(st, i) ==
    IF st.calls[i].kind = "getTokenInfo" THEN settleToken(st, i)
    ELSE IF st.calls[i].kind = "getPoolInfo" THEN settlePoolReads(st, i)
    ELSE settleLending(st, i)

TopLevelCalls == {i \in 1..Len(calls) : calls[i].parent = 0}

RECURSIVE PendingReads(_)
PendingReads(n) ==
    IF n = 0 THEN 0 ELSE Cardinality(calls[n].pending) + PendingReads(n - 1)

\* a caller makes a call that issues `reads` reads
CallerMayCall(reads) ==
    /\ Cardinality(TopLevelCalls) < MaxCalls
    /\ PendingReads(Len(calls)) + reads <= MaxPending

ChainUnchanged == UNCHANGED <<providers, supply, reserves>>

\* ---------------------------------------------------------------- steps
getTokenInfo(tokenAddress, network) ==
    /\ CallerMayCall(Cardinality(TokenReads))
    /\ calls' = Append(calls, tokenCall(tokenCache, tokenAddress, network, 0))
    /\ UNCHANGED tokenCache
    /\ ChainUnchanged

getPoolInfo(poolAddress, network) ==
    /\ CallerMayCall(Cardinality(PoolReads))
    /\ calls' = Append(calls, poolCall(poolAddress, network))
    /\ UNCHANGED tokenCache
    /\ ChainUnchanged

getLendingPoolInfo(poolAddress, userAddress, network) ==
    /\ CallerMayCall(Cardinality(LendingReads))
    /\ calls' = Append(calls, lendingCall(poolAddress, userAddress, network))
    /\ UNCHANGED tokenCache
    /\ ChainUnchanged

\* the reads of one Promise.all go out in one tick; the chain answers them
\* at one block and the answers arrive together
ReadsReturn(i) ==
    /\ calls[i].pc = "reads"
    /\ calls[i].pending # {}
    /\ LET c == [calls[i] EXCEPT !.pending = {},
                                 !.got = [name \in DOMAIN @ |-> ChainRead(calls[i], name)]]
           st == settle(Service([calls EXCEPT ![i] = c], tokenCache), i)
       IN /\ calls' = st.calls
          /\ tokenCache' = st.cache
    /\ ChainUnchanged

\* one read of call i fails
ReadFails(i, name) ==
    /\ calls[i].pc = "reads"
    /\ name \in calls[i].pending
    /\ LET c == [calls[i] EXCEPT !.pending = @ \ {name}, !.failed = TRUE]
           st == settle(Service([calls EXCEPT ![i] = c], tokenCache), i)
       IN /\ calls' = st.calls
          /\ tokenCache' = st.cache
    /\ ChainUnchanged

\* tokens are minted on a chain
SupplyChanges(network, tokenAddress, totalSupply) ==
    /\ supply[<<network, tokenAddress>>] < totalSupply
    /\ supply' = [supply EXCEPT ![<<network, tokenAddress>>] = totalSupply]
    /\ UNCHANGED <<providers, tokenCache, calls, reserves>>

\* a swap moves the reserves of the pool, a borrow the account data
ReservesChange(r) ==
    /\ reserves < r
    /\ reserves' = r
    /\ UNCHANGED <<providers, tokenCache, calls, supply>>

\* the constructor: a provider for every network with an RPC url
\* (ETH_RPC_URL and POLYGON_RPC_URL are set, ARB_RPC_URL is not)
InitChain ==
    /\ LedgerDeployed
    /\ NoEnvironment
    /\ ServiceConstructed
    /\ providers = {"ethereum", "polygon"}
    /\ tokenCache = [k \in {} |-> 0]
    /\ calls = <<>>
    /\ supply = [k \in ChainNetworks \X ChainTokens |-> 100]
    /\ reserves = 10
    /\ NoFormatting
    /\ NoClients

NextChain ==
    \/ /\ \E t \in RequestedTokens, n \in ChainNetworks : getTokenInfo(t, n)
       /\ UNCHANGED <<vars, serviceVars, formatVars, clientVars>>
    \/ /\ \E q \in PoolAddresses, n \in PoolNetworks : getPoolInfo(q, n)
       /\ UNCHANGED <<vars, serviceVars, formatVars, clientVars>>
    \/ /\ \E q \in LendingPools, u \in Users, n \in PoolNetworks :
             getLendingPoolInfo(q, u, n)
       /\ UNCHANGED <<vars, serviceVars, formatVars, clientVars>>
    \/ /\ \E i \in 1..Len(calls) : ReadsReturn(i)
       /\ UNCHANGED <<vars, serviceVars, formatVars, clientVars>>
    \/ /\ \E i \in 1..Len(calls) : \E name \in calls[i].pending : ReadFails(i, name)
       /\ UNCHANGED <<vars, serviceVars, formatVars, clientVars>>
    \/ /\ \E n \in MintNetworks, t \in MintedTokens, v \in Supplies : SupplyChanges(n, t, v)
       /\ UNCHANGED <<vars, serviceVars, formatVars, clientVars>>
    \/ /\ \E r \in Reserves : ReservesChange(r)
       /\ UNCHANGED <<vars, serviceVars, formatVars, clientVars>>

SpecChain == InitChain /\ [][NextChain]_allVars
\* ---------------------------------------------------------------- claims
\* call i is made in this step (by a caller, or by getPoolInfo)
CallStarts(i) == i > Len(calls) /\ i <= Len(calls')

\* call i returns or throws in this step
CallFinishes(i) ==
    /\ i <= Len(calls')
    /\ calls'[i].pc = "done"
    /\ (i <= Len(calls) => calls[i].pc # "done")

\* call i was waiting for its reads and its Promise.all settles in this step
ReadsSettle(i) ==
    /\ i <= Len(calls)
    /\ calls[i].pending # {}
    /\ calls'[i].pending = {}

TokenCalls(cs) == {i \in 1..Len(cs) : cs[i].kind = "getTokenInfo"}

KeyOf(c) == <<c.network, c.address>>

OnChain(c) ==
    TokenInfo(c.address, symbolOf(c.network, c.address), decimalsOf(c.address),
              supply[<<c.network, c.address>>])

\* C15: getTokenInfo is cache-first.  A call that finds an entry for its
\* (network, address) returns that entry and issues no read; a call that
\* finds none issues exactly symbol, decimals and totalSupply and leaves the
\* cache alone until the three have returned; the cache changes only in the
\* step where the reads of one call return, by one entry under that call's
\* (network, address) which is what the call returns; and what a call
\* returns is the token of the network it asked for.
C15_Step ==
    /\ \A i \in TokenCalls(calls') :
          LET c == calls'[i]
          IN /\ CallStarts(i) /\ KeyOf(c) \in DOMAIN tokenCache
                   => /\ c.status = "ok"
                      /\ c.issued = {}
                      /\ c.result = tokenCache[KeyOf(c)]
             /\ CallStarts(i) /\ KeyOf(c) \notin DOMAIN tokenCache
                              /\ c.network \in providers
                   => /\ c.pc = "reads"
                      /\ c.issued = TokenReads
                      /\ c.pending = TokenReads
             /\ CallStarts(i) => tokenCache' = tokenCache
             /\ ReadsSettle(i) /\ c.status = "ok"
                   => /\ c.issued = TokenReads
                      /\ c.result = OnChain(c)
                      /\ tokenCache' = MapSet(tokenCache, KeyOf(c), c.result)
             /\ c.status = "ok" => c.result.symbol = symbolOf(c.network, c.address)
    /\ tokenCache' # tokenCache
          => \E i \in TokenCalls(calls') : ReadsSettle(i) /\ calls'[i].status = "ok"

C15_CacheFirst == [][C15_Step]_allVars

\* a hit on one network, and a miss for the same address on another network
\* that was fetched there
C15_Witness ==
    \E i, j \in TokenCalls(calls) :
       /\ calls[i].status = "ok" /\ calls[i].issued = {} /\ calls[i].parent = 0
       /\ calls[j].status = "ok" /\ calls[j].issued = TokenReads
       /\ calls[j].address = calls[i].address
       /\ calls[j].network # calls[i].network
       /\ calls[j].result.symbol # calls[i].result.symbol
       /\ KeyOf(calls[i]) \in DOMAIN tokenCache
       /\ KeyOf(calls[j]) \in DOMAIN tokenCache

TokenErrors == {"Provider not found for network", "Failed to fetch token info"}

\* C16: a getTokenInfo call for a network without provider throws the
\* provider error, a call one of whose reads fails throws the token-read
\* error, a call throws nothing else; the step in which it throws leaves the
\* cache as it was, every entry of the cache is a complete TokenInfo of the
\* chain, and a later call for the key of a failed call issues the reads again.
C16_Step ==
    /\ \A i \in TokenCalls(calls') :
          LET c == calls'[i]
          IN /\ CallStarts(i) /\ KeyOf(c) \notin DOMAIN tokenCache
                              /\ c.network \notin providers
                   => /\ c.status = "Provider not found for network"
                      /\ c.issued = {}
             /\ ReadsSettle(i) /\ c.failed
                   => /\ c.status = "Failed to fetch token info"
                      /\ tokenCache' = tokenCache
             /\ CallFinishes(i) /\ c.status # "ok"
                   => /\ c.status \in TokenErrors
                      /\ tokenCache' = tokenCache
             /\ CallStarts(i) /\ c.network \in providers
                   /\ KeyOf(c) \notin DOMAIN tokenCache
                   /\ (\E j \in TokenCalls(calls) :
                          KeyOf(calls[j]) = KeyOf(c) /\ calls[j].status \in TokenErrors)
                   => c.issued = TokenReads
    /\ \A k \in DOMAIN tokenCache' :
          /\ tokenCache'[k].address = k[2]
          /\ tokenCache'[k].symbol = symbolOf(k[1], k[2])
          /\ tokenCache'[k].decimals = decimalsOf(k[2])
          /\ tokenCache'[k].totalSupply \in Supplies

C16_FailuresLeaveCache == [][C16_Step]_allVars

\* both failures happened, the key of the failed read is not cached, and a
\* later call for it went to the chain again
C16_Witness ==
    /\ \E i \in TokenCalls(calls) : calls[i].status = "Provider not found for network"
    /\ \E j, i \in TokenCalls(calls) :
          /\ j < i
          /\ calls[j].status = "Failed to fetch token info"
          /\ KeyOf(calls[i]) = KeyOf(calls[j])
          /\ calls[i].issued = TokenReads
          /\ calls[i].status = "ok"

\* two calls for one key that both missed and both went to the chain
ConcurrentMisses(i, j) ==
    /\ i # j
    /\ KeyOf(calls[i]) = KeyOf(calls[j])
    /\ calls[i].issued = TokenReads
    /\ calls[j].issued = TokenReads
    /\ calls[i].status = "ok"
    /\ calls[j].status = "ok"

\* C17: two getTokenInfo calls that missed on the same key and have both
\* returned have returned the same value, and that value is the cache entry.
C17_ConcurrentMissesConverge ==
    \A i, j \in TokenCalls(calls) :
       ConcurrentMisses(i, j)
          => /\ calls[i].result = calls[j].result
             /\ KeyOf(calls[i]) \in DOMAIN tokenCache
             /\ tokenCache[KeyOf(calls[i])] = calls[i].result

\* C18: the cache is append-only and an entry never changes once written.
C18_Step ==
    \A k \in DOMAIN tokenCache :
       /\ k \in DOMAIN tokenCache'
       /\ tokenCache'[k] = tokenCache[k]

C18_CacheImmutable == [][C18_Step]_allVars

\* C19: reserve and account state is never cached.  Every getPoolInfo call
\* on a network with provider issues token0, token1, getReserves and
\* totalSupply, every getLendingPoolInfo call issues getUserAccountData and
\* getReserveData, whatever calls were made before; what they return is what
\* the chain answered to their own reads; and only a getTokenInfo call
\* returns without having issued a read.
C19_Step ==
    \A i \in 1..Len(calls') :
       LET c == calls'[i]
       IN /\ CallStarts(i) /\ c.kind = "getPoolInfo" /\ c.network \in providers
                => c.pc = "reads" /\ c.issued = PoolReads /\ c.pending = PoolReads
          /\ CallStarts(i) /\ c.kind = "getLendingPoolInfo" /\ c.network \in providers
                => c.pc = "reads" /\ c.issued = LendingReads /\ c.pending = LendingReads
          /\ ReadsSettle(i) /\ ~c.failed /\ c.kind = "getPoolInfo"
                => c.got.getReserves = reserves
          /\ c.status = "ok" /\ c.kind = "getPoolInfo"
                => /\ c.issued = PoolReads
                   /\ c.result.reserves = c.got.getReserves
                   /\ c.result.totalSupply = c.got.totalSupply
          /\ ReadsSettle(i) /\ ~c.failed /\ c.kind = "getLendingPoolInfo"
                => /\ c.status = "ok"
                   /\ c.issued = LendingReads
                   /\ c.result.userMetrics = reserves
                   /\ c.result.reserveMetrics = reserves
          /\ c.status = "ok" /\ c.issued = {} => c.kind = "getTokenInfo"

C19_ReservesNeverCached == [][C19_Step]_allVars

\* two calls for one pool that returned different reserves, the second with
\* both tokens answered from the cache
C19_Witness ==
    \E i, j \in 1..Len(calls) :
       /\ i < j
       /\ calls[i].kind = "getPoolInfo" /\ calls[j].kind = "getPoolInfo"
       /\ calls[i].status = "ok" /\ calls[j].status = "ok"
       /\ calls[i].address = calls[j].address
       /\ calls[i].network = calls[j].network
       /\ calls[i].result.reserves # calls[j].result.reserves
       /\ calls[calls[j].sub[1]].issued = {}
       /\ calls[calls[j].sub[2]].issued = {}

\* ================================================================
\* formatTokenAmount (src/src/server/lib/blockchain.ts, lines 874-889)
\* ================================================================
\* Amounts are decimal strings, written as sequences of characters; a BigInt
\* is written by its decimal digits without leading zeros.

NumberDigits == 17      \* significant decimal digits that identify a double

TokenDecimals == {0, 6, 8, 18}

SampleDigits ==
    <<"1", "2", "3", "4", "5", "6", "7", "8", "9", "0",
      "1", "2", "3", "4", "5", "6", "7", "8", "9">>

Repeat(c, n) == [k \in 1..n |-> c]

FormatAmounts ==
    {SubSeq(SampleDigits, 1, n) : n \in 1..Len(SampleDigits)}
       \cup {<<"0">>, <<"5">>, <<"1">> \o Repeat("0", 6), <<"1">> \o Repeat("0", 8),
             <<"1">> \o Repeat("0", 18), Repeat("9", 20)}

RECURSIVE StripLeadingZeros(_)
StripLeadingZeros(digits) ==
    IF Len(digits) > 1 /\ digits[1] = "0" THEN StripLeadingZeros(Tail(digits))
    ELSE IF digits = <<>> THEN <<"0">>
    ELSE digits

\* BigInt(amount)
BigInt(str) == StripLeadingZeros(str)

\* value / BigInt(10) ** BigInt(k)
DivPow10(value, k) ==
    IF Len(value) > k THEN SubSeq(value, 1, Len(value) - k) ELSE <<"0">>

\* value % BigInt(10) ** BigInt(k)
ModPow10(value, k) ==
    IF Len(value) > k
    THEN StripLeadingZeros(SubSeq(value, Len(value) - k + 1, Len(value)))
    ELSE value

\* str.padStart(length, fill)
RECURSIVE padStart(_, _, _)
padStart(str, length, fill) ==
    IF Len(str) < length THEN padStart(<<fill>> \o str, length, fill) ELSE str

\* digits + 1
RECURSIVE Increment(_)
Increment(digits) ==
    IF digits = <<>> THEN <<"1">>
    ELSE IF digits[Len(digits)] = "9"
    THEN Append(Increment(SubSeq(digits, 1, Len(digits) - 1)), "0")
    ELSE Append(SubSeq(digits, 1, Len(digits) - 1),
                DigitChars[DigitValue(digits[Len(digits)]) + 2])

NonZero(digits) == {k \in 1..Len(digits) : digits[k] # "0"}

Least(S) == CHOOSE x \in S : \A y \in S : x <= y
Greatest(S) == CHOOSE x \in S : \A y \in S : y <= x

\* parseFloat(`${int}.${frac}`): the double nearest to the decimal.  A double
\* is identified by NumberDigits significant digits, so a decimal with more
\* is rounded to that many; a decimal with fewer is taken as it stands.
parseFloat(int, frac) ==
    LET all == int \o frac
        first == Least(NonZero(all))
        last == Greatest(NonZero(all))
        keep == first + NumberDigits - 1
        kept == SubSeq(all, 1, keep)
        rounded == IF DigitValue(all[keep + 1]) >= 5 THEN Increment(kept) ELSE kept
        digits == rounded \o Repeat("0", Len(all) - keep)
        split == Len(int) + (Len(rounded) - keep)
    IN IF NonZero(all) = {} THEN Number(<<"0">>, <<>>)
       ELSE IF last - first + 1 <= NumberDigits
       THEN Number(StripLeadingZeros(int), TrimTrailingZeros(frac))
       ELSE Number(StripLeadingZeros(SubSeq(digits, 1, split)),
                   TrimTrailingZeros(SubSeq(digits, split + 1, Len(digits))))

formatTokenAmount(amt, decimals) ==
    IF amt = <<>> \/ amt = <<"0">> THEN Number(<<"0">>, <<>>)
    ELSE LET value == BigInt(amt)
             beforeDecimal == DivPow10(value, decimals)
             afterDecimal == ModPow10(value, decimals)
             afterDecimalStr == padStart(afterDecimal, decimals, "0")
         IN parseFloat(beforeDecimal, afterDecimalStr)

\* an adapter formats one amount
Format ==
    /\ fmtResult = NotFormatted
    /\ fmtResult' = formatTokenAmount(fmtAmount, fmtDecimals)
    /\ UNCHANGED <<fmtAmount, fmtDecimals>>
    /\ UNCHANGED <<vars, serviceVars, chainVars, clientVars>>

InitFormat ==
    /\ LedgerDeployed
    /\ NoEnvironment
    /\ ServiceConstructed
    /\ NoChainAccess
    /\ fmtAmount \in FormatAmounts
    /\ fmtDecimals \in TokenDecimals
    /\ fmtResult = NotFormatted
    /\ NoClients

NextFormat == Format

SpecFormat == InitFormat /\ [][NextFormat]_allVars

\* the decimal with integer part amt div 10^decimals and the digits of
\* amt mod 10^decimals, padded to `decimals` digits, as its fraction
ExactDecimal(amt, decimals) ==
    LET padded == padStart(amt, decimals + 1, "0")
        cut == Len(padded) - decimals
    IN Number(StripLeadingZeros(SubSeq(padded, 1, cut)),
              TrimTrailingZeros(SubSeq(padded, cut + 1, Len(padded))))

\* C20: formatTokenAmount(amount, decimals) is the exact decimal
\* amount / 10^decimals, without rounding, for decimals in {0, 6, 8, 18}.
C20_FormatExact ==
    fmtResult # NotFormatted => fmtResult = ExactDecimal(fmtAmount, fmtDecimals)

\* ================================================================
\* GraphService (src/src/server/lib/blockchain.ts, lines 264-334)
\* ================================================================
\* A call looks up the client of the protocol, dispatches on the protocol
\* name to an adapter, and the adapter sends one query to the client it was
\* given.  The query is answered or fails in a later step.

MaxGraphCalls == 2  \* calls made on the service

\* constructor: one client per subgraph
clients == {"uniswap", "aave", "compound", "balancer", "curve"}

GraphProtocols == clients \cup {"sushiswap"}        \* protocol
GraphUsers == {"0xU1"}                              \* userAddress

NoAdapter == ""

\* the switch of getProtocolMetrics (lines 291-304)
metricsAdapter_crossed(protocol) ==
    CASE protocol = "uniswap" -> "getUniswapMetrics"
      [] protocol = "aave" -> "getCompoundMetrics"
      [] protocol = "compound" -> "getAaveMetrics"
      [] protocol = "balancer" -> "getBalancerMetrics"
      [] protocol = "curve" -> "getCurveMetrics"
      [] OTHER -> NoAdapter

metricsAdapter(protocol) ==
    CASE protocol = "uniswap" -> "getUniswapMetrics"
      [] protocol = "aave" -> "getAaveMetrics"
      [] protocol = "compound" -> "getCompoundMetrics"
      [] protocol = "balancer" -> "getBalancerMetrics"
      [] protocol = "curve" -> "getCurveMetrics"
      [] OTHER -> NoAdapter

\* the switch of getUserPositions (lines 316-329)
positionsAdapter(protocol) ==
    CASE protocol = "uniswap" -> "getUniswapPositions"
      [] protocol = "aave" -> "getAavePositions"
      [] protocol = "compound" -> "getCompoundPositions"
      [] protocol = "balancer" -> "getBalancerPositions"
      [] protocol = "curve" -> "getCurvePositions"
      [] OTHER -> NoAdapter

\* the entity an adapter asks its subgraph for (the gql documents)
entityOf(adapter) ==
    CASE adapter = "getUniswapMetrics" -> "factories"
      [] adapter = "getAaveMetrics" -> "protocolData"
      [] adapter = "getCompoundMetrics" -> "markets"
      [] adapter = "getBalancerMetrics" -> "balancers"
      [] adapter = "getCurveMetrics" -> "platform"
      [] adapter = "getUniswapPositions" -> "positions"
      [] adapter = "getAavePositions" -> "userReserves"
      [] adapter = "getCompoundPositions" -> "accountCTokens"
      [] adapter = "getBalancerPositions" -> "poolShares"
      [] OTHER -> "account"

NoQuery == [client |-> "", entity |-> "", user |-> ""]
NoData == [source |-> "", entity |-> "", user |-> ""]

\* a call on the service: the adapter it was dispatched to, the query the
\* adapter sent, and what the call returned or threw
GraphCall(op, protocol, user, adapter, query, pc, status, result) ==
    [op |-> op, protocol |-> protocol, user |-> user, adapter |-> adapter,
     query |-> query, pc |-> pc, status |-> status, result |-> result]

\* lines 287-288 / 312-313, then the switch, then the adapter up to its await
dispatch(op, protocol, user, adapter) ==
    IF protocol \notin clients
    THEN GraphCall(op, protocol, user, NoAdapter, NoQuery, "done",
                   "No client found for protocol", NoData)
    ELSE IF adapter = NoAdapter
    THEN GraphCall(op, protocol, user, NoAdapter, NoQuery, "done",
                   "Unsupported protocol", NoData)
    ELSE GraphCall(op, protocol, user, adapter,
                   [client |-> protocol, entity |-> entityOf(adapter), user |-> user],
                   "query", "pending", NoData)

GraphService_getProtocolMetrics(protocol) ==
    /\ Len(graphCalls) < MaxGraphCalls
    /\ graphCalls' = Append(graphCalls,
                            dispatch("getProtocolMetrics", protocol, "",
                                     metricsAdapter(protocol)))

GraphService_getUserPositions(protocol, userAddress) ==
    /\ Len(graphCalls) < MaxGraphCalls
    /\ graphCalls' = Append(graphCalls,
                            dispatch("getUserPositions", protocol, userAddress,
                                     positionsAdapter(protocol)))

\* the subgraph answers the query; the adapter maps the rows and returns
QueryReturns(i) ==
    /\ graphCalls[i].pc = "query"
    /\ LET q == graphCalls[i].query
       IN graphCalls' = [graphCalls EXCEPT ![i] =
             [@ EXCEPT !.pc = "done", !.status = "ok",
                       !.result = [source |-> q.client, entity |-> q.entity,
                                   user |-> q.user]]]

\* client.query rejects; catch logs and rethrows the error (lines 305-308)
QueryFails(i) ==
    /\ graphCalls[i].pc = "query"
    /\ graphCalls' = [graphCalls EXCEPT ![i] =
          [@ EXCEPT !.pc = "done", !.status = "ApolloError"]]

InitGraph ==
    /\ LedgerDeployed
    /\ NoEnvironment
    /\ ServiceConstructed
    /\ NoChainAccess
    /\ NoFormatting
    /\ graphCalls = <<>>
    /\ NoMetricsCalls
    /\ NoHook

GraphRest == UNCHANGED <<vars, serviceVars, chainVars, formatVars, metricsVars, hookVars>>

NextGraph ==
    \/ /\ \E p \in GraphProtocols : GraphService_getProtocolMetrics(p)
       /\ GraphRest
    \/ /\ \E p \in GraphProtocols, u \in GraphUsers : GraphService_getUserPositions(p, u)
       /\ GraphRest
    \/ /\ \E i \in 1..Len(graphCalls) : QueryReturns(i)
       /\ GraphRest
    \/ /\ \E i \in 1..Len(graphCalls) : QueryFails(i)
       /\ GraphRest

SpecGraph == InitGraph /\ [][NextGraph]_allVars

\* the adapter of a protocol, by the protocol's name
OwnAdapter(op, protocol) ==
    LET name == CASE protocol = "uniswap" -> "Uniswap"
                  [] protocol = "aave" -> "Aave"
                  [] protocol = "compound" -> "Compound"
                  [] protocol = "balancer" -> "Balancer"
                  [] OTHER -> "Curve"
    IN <<name, IF op = "getProtocolMetrics" THEN "Metrics" ELSE "Positions">>

AdapterName(adapter) ==
    CASE adapter \in {"getUniswapMetrics", "getUniswapPositions"} -> "Uniswap"
      [] adapter \in {"getAaveMetrics", "getAavePositions"} -> "Aave"
      [] adapter \in {"getCompoundMetrics", "getCompoundPositions"} -> "Compound"
      [] adapter \in {"getBalancerMetrics", "getBalancerPositions"} -> "Balancer"
      [] adapter \in {"getCurveMetrics", "getCurvePositions"} -> "Curve"
      [] OTHER -> ""

AdapterKind(adapter) ==
    IF adapter \in {metricsAdapter(p) : p \in clients} THEN "Metrics" ELSE "Positions"

GraphCallStarts(i) == i = Len(graphCalls) + 1 /\ i = Len(graphCalls')

\* C21: a getProtocolMetrics or getUserPositions call for a protocol outside
\* the five supported ones throws the no-client error without sending a
\* query; a call for a supported protocol is dispatched to the adapter of
\* that protocol, which queries that protocol's subgraph and no other; when
\* the query fails the call throws, and when it is answered the call returns
\* the data of that subgraph.
C21_Step ==
    \A i \in 1..Len(graphCalls') :
       LET c == graphCalls'[i]
       IN /\ GraphCallStarts(i) /\ c.protocol \notin
                {"uniswap", "aave", "compound", "balancer", "curve"}
                => /\ c.pc = "done"
                   /\ c.status = "No client found for protocol"
                   /\ c.query = NoQuery
                   /\ c.adapter = NoAdapter
          /\ GraphCallStarts(i) /\ c.protocol \in
                {"uniswap", "aave", "compound", "balancer", "curve"}
                => /\ c.pc = "query"
                   /\ <<AdapterName(c.adapter), AdapterKind(c.adapter)>>
                         = OwnAdapter(c.op, c.protocol)
                   /\ c.query.client = c.protocol
          /\ i <= Len(graphCalls) /\ graphCalls[i].pc = "query" /\ c.pc = "done"
                => /\ c.adapter = graphCalls[i].adapter
                   /\ c.query = graphCalls[i].query
                   /\ c.status \in {"ok", "ApolloError"}
                   /\ c.status = "ok" => c.result.source = c.protocol
                   /\ c.status # "ok" => c.result = NoData
          /\ c.status = "ok" => c.protocol \in clients /\ c.result.source = c.protocol

C21_TypedFailures == [][C21_Step]_allVars

\* an unsupported protocol was refused and a supported one failed at its
\* source
C21_Witness ==
    \E i, j \in 1..Len(graphCalls) :
       /\ graphCalls[i].status = "No client found for protocol"
       /\ graphCalls[j].status = "ApolloError"
       /\ graphCalls[j].protocol \in clients

\* ================================================================
\* MetricsService (src/src/server/lib/metrics.ts)
\* ================================================================
\* getProtocolMetrics reads the protocol's row, then walks the configured
\* endpoints in the order of the configuration, awaiting each fetch before it
\* starts the next.  A step is the part of a call up to its next await.

MaxMetricsCalls == 2    \* calls made on the service

\* rows of the table `protocols`: id -> config.dataEndpoints (keys in order)
dataEndpoints ==
    [aave |-> <<"tvl", "apy", "users">>, curve |-> <<"tvl", "volume">>]

ProtocolIds == {"aave", "curve", "unknown"}         \* protocolId
UserIds == {"u1"}                                   \* userId

\* rows of the table `positions` for a protocol and a user, or null
PositionRows == {<<>>, <<"pos1", "pos2">>}

Null == "null"

\* response.json() of an endpoint that answers
JsonOf(protocolId, key) ==
    IF protocolId = "aave"
    THEN (CASE key = "tvl" -> "aave-tvl" [] key = "apy" -> "aave-apy" [] OTHER -> "aave-users")
    ELSE (CASE key = "tvl" -> "curve-tvl" [] OTHER -> "curve-volume")

Seq2Set(q) == {q[k] : k \in 1..Len(q)}

\* a call on the service: the endpoints of its protocol, the index of the
\* fetch it awaits, the fetches started so far, the metrics collected
MetricsCall(op, protocolId, userId) ==
    [op |-> op, protocolId |-> protocolId, userId |-> userId, pc |-> "select",
     endpoints |-> <<>>, k |-> 0, started |-> {}, metrics |-> <<>>,
     status |-> "pending", positions |-> <<>>]

\* the return statement (lines 63-67)
returnMetrics(c) == [c EXCEPT !.pc = "done", !.status = "ok"]

\* the loop head (line 50): start the fetch of the next endpoint, or leave
nextEndpoint(c) ==
    IF c.k < Len(c.endpoints)
    THEN [c EXCEPT !.pc = "fetch", !.k = @ + 1,
                   !.started = @ \cup {c.endpoints[c.k + 1]}]
    ELSE returnMetrics(c)

\* metrics[key] = value
setMetric(c, value) ==
    LET key == c.endpoints[c.k]
    IN [c EXCEPT !.metrics =
           [x \in DOMAIN c.metrics \cup {key} |->
               IF x = key THEN value ELSE c.metrics[x]]]

fetchFailed_rethrow(c) == [c EXCEPT !.pc = "done", !.status = "fetch failed"]

\* catch of the loop body (lines 54-57)
fetchFailed(c) == nextEndpoint(setMetric(c, Null))

MetricsService_getProtocolMetrics(protocolId) ==
    /\ Len(metricsCalls) < MaxMetricsCalls
    /\ metricsCalls' = Append(metricsCalls,
                              MetricsCall("getProtocolMetrics", protocolId, ""))

MetricsService_getUserMetrics(protocolId, userId) ==
    /\ Len(metricsCalls) < MaxMetricsCalls
    /\ metricsCalls' = Append(metricsCalls,
                              MetricsCall("getUserMetrics", protocolId, userId))

\* the select on `protocols` returns: the row, or no row (lines 37-48)
ProtocolSelected(i) ==
    /\ metricsCalls[i].pc = "select"
    /\ metricsCalls[i].op = "getProtocolMetrics"
    /\ LET c == metricsCalls[i]
       IN metricsCalls' = [metricsCalls EXCEPT ![i] =
             IF c.protocolId \in DOMAIN dataEndpoints
             THEN nextEndpoint([c EXCEPT !.endpoints = dataEndpoints[c.protocolId]])
             ELSE [c EXCEPT !.pc = "done", !.status = "Protocol not found"]]

\* fetch and response.json() of the awaited endpoint succeed (lines 52-53)
FetchReturns(i) ==
    /\ metricsCalls[i].pc = "fetch"
    /\ LET c == metricsCalls[i]
       IN metricsCalls' = [metricsCalls EXCEPT ![i] =
             nextEndpoint(setMetric(c, JsonOf(c.protocolId, c.endpoints[c.k])))]

\* fetch or response.json() of the awaited endpoint rejects
FetchFails(i) ==
    /\ metricsCalls[i].pc = "fetch"
    /\ metricsCalls' = [metricsCalls EXCEPT ![i] = fetchFailed(metricsCalls[i])]

\* the select on `positions` returns rows (lines 77-101)
PositionsSelected(i, rows) ==
    /\ metricsCalls[i].pc = "select"
    /\ metricsCalls[i].op = "getUserMetrics"
    /\ metricsCalls' = [metricsCalls EXCEPT ![i] =
          [@ EXCEPT !.pc = "done", !.status = "ok",
                    !.positions = [k \in 1..Len(rows) |->
                                      [position_id |-> rows[k], metrics |-> {}]]]]

\* the select on `positions` returns no data (lines 83-85)
PositionsMissing(i) ==
    /\ metricsCalls[i].pc = "select"
    /\ metricsCalls[i].op = "getUserMetrics"
    /\ metricsCalls' = [metricsCalls EXCEPT ![i] =
          [@ EXCEPT !.pc = "done", !.status = "null"]]

InitMetrics ==
    /\ LedgerDeployed
    /\ NoEnvironment
    /\ ServiceConstructed
    /\ NoChainAccess
    /\ NoFormatting
    /\ NoGraphCalls
    /\ metricsCalls = <<>>
    /\ NoHook

MetricsRest == UNCHANGED <<vars, serviceVars, chainVars, formatVars, graphVars, hookVars>>

NextMetrics ==
    \/ /\ \E p \in ProtocolIds : MetricsService_getProtocolMetrics(p)
       /\ MetricsRest
    \/ /\ \E p \in ProtocolIds, u \in UserIds : MetricsService_getUserMetrics(p, u)
       /\ MetricsRest
    \/ /\ \E i \in 1..Len(metricsCalls) : ProtocolSelected(i)
       /\ MetricsRest
    \/ /\ \E i \in 1..Len(metricsCalls) : FetchReturns(i)
       /\ MetricsRest
    \/ /\ \E i \in 1..Len(metricsCalls) : FetchFails(i)
       /\ MetricsRest
    \/ /\ \E i \in 1..Len(metricsCalls), rows \in PositionRows : PositionsSelected(i, rows)
       /\ MetricsRest
    \/ /\ \E i \in 1..Len(metricsCalls) : PositionsMissing(i)
       /\ MetricsRest

SpecMetrics == InitMetrics /\ [][NextMetrics]_allVars

\* C22: failure isolation.  When the fetch of one endpoint fails, the call
\* does not throw: it records null for that endpoint, keeps what it already
\* collected, and goes on to the fetch of the next endpoint, or returns when
\* there is none; a returned aggregation has an entry for every endpoint,
\* the endpoint's data or null.
C22_Step ==
    \A i \in 1..Len(metricsCalls') :
       LET c == metricsCalls'[i]
       IN /\ i <= Len(metricsCalls) /\ metricsCalls[i].pc = "fetch"
                => LET b == metricsCalls[i]
                       key == b.endpoints[b.k]
                   IN /\ c.status \in {"pending", "ok"}
                      /\ \A x \in DOMAIN b.metrics :
                            x \in DOMAIN c.metrics /\ c.metrics[x] = b.metrics[x]
                      /\ c # b => /\ key \in DOMAIN c.metrics
                                  /\ c.metrics[key] \in {Null, JsonOf(b.protocolId, key)}
                                  /\ IF b.k < Len(b.endpoints)
                                     THEN /\ c.pc = "fetch"
                                          /\ c.k = b.k + 1
                                          /\ b.endpoints[c.k] \in c.started
                                     ELSE c.pc = "done" /\ c.status = "ok"
          /\ c.op = "getProtocolMetrics" /\ c.status = "ok"
                => /\ DOMAIN c.metrics = Seq2Set(c.endpoints)
                   /\ \A x \in DOMAIN c.metrics :
                         c.metrics[x] \in {Null, JsonOf(c.protocolId, x)}

C22_FailureIsolation == [][C22_Step]_allVars

\* an aggregation that returned with null for a source that failed and the
\* data of a source fetched after it
C22_Witness ==
    \E i \in 1..Len(metricsCalls) :
       LET c == metricsCalls[i]
       IN /\ c.op = "getProtocolMetrics"
          /\ c.status = "ok"
          /\ \E a, b \in 1..Len(c.endpoints) :
                /\ a < b
                /\ c.metrics[c.endpoints[a]] = Null
                /\ c.metrics[c.endpoints[b]] = JsonOf(c.protocolId, c.endpoints[b])

\* ================================================================
\* usePortfolio (src/unnamed/part_001, lines 147-430) over ApiClient
\* (src/unnamed/part_005, lines 466-566)
\* ================================================================
\* A step is the part of a handler or of an async function that runs up to
\* its next await; the answer of the backend to one request is one step.  The
\* effects of lines 359-387 run with the render that follows a change of
\* their dependencies and are part of the step that makes the change.

MaxFetches == 3     \* fetchPortfolioData / updateMetrics runs started
MaxMutations == 1   \* addPosition / removePosition calls of the hook

Wallet == "0xU1"                                    \* the connected account
WalletChains == {1}                                 \* chainId of the wallet
TimeFrames == {"1m", "1w"}                          \* timeframe

NoRisk == -1        \* Position.risk is optional (line 88)

PositionA == [id |-> "a", chainName |-> "Ethereum", value |-> 100, risk |-> 3]
PositionB == [id |-> "b", chainName |-> "Optimism", value |-> 50, risk |-> NoRisk]

\* the positions the backend can hold for the wallet, in the order they land
Landing == <<PositionA, PositionB>>

RECURSIVE TotalValue(_)
TotalValue(ps) == IF ps = <<>> THEN 0 ELSE ps[1].value + TotalValue(Tail(ps))

RECURSIVE Gcd(_, _)
Gcd(a, b) == IF b = 0 THEN a ELSE Gcd(b, a % b)

\* a / b as a number
Quotient(a, b) == [num |-> a \div Gcd(a, b), den |-> b \div Gcd(a, b)]

\* pos.risk || 0
riskOf(pos) == IF pos.risk = NoRisk \/ pos.risk = 0 THEN 0 ELSE pos.risk

\* positions.reduce((sum, pos) => sum + (pos.risk || 0), 0)
RECURSIVE totalRisk(_)
totalRisk(ps) == IF ps = <<>> THEN 0 ELSE riskOf(ps[1]) + totalRisk(Tail(ps))

calculateRiskScore_ratedOnly(ps) ==
    LET rated == {k \in 1..Len(ps) : ps[k].risk # NoRisk}
    IN IF rated = {} THEN Quotient(0, 1) ELSE Quotient(totalRisk(ps), Cardinality(rated))

\* lines 271-277
calculateRiskScore(ps) ==
    IF Len(ps) = 0 THEN Quotient(0, 1) ELSE Quotient(totalRisk(ps), Len(ps))

\* ApiClient: what the backend answers to a request at the time it answers
ApiClient_getPortfolio(address) == [address |-> address, totalValue |-> TotalValue(book)]
ApiClient_getPositions(address) == book
ApiClient_getPortfolioMetrics(address, tf) ==
    <<[address |-> address, timeframe |-> tf, value |-> TotalValue(book)]>>

\* a run of fetchPortfolioData or of updateMetrics: its arguments, the
\* timeframe of the render it was created in, the request it awaits, the
\* answers it holds, and whether a mutation of the hook awaits it
Fetch(id, kind, address, chainId, tf, pc, awaited) ==
    [id |-> id, kind |-> kind, address |-> address, chainId |-> chainId,
     timeframe |-> tf, pc |-> pc, awaited |-> awaited,
     portfolioResponse |-> [address |-> NoAddress, totalValue |-> 0],
     positionsResponse |-> <<>>]

\* fetchPortfolioData up to its first await (lines 236-240)
fetchPortfolioData(id, address, chainId, tf, awaited) ==
    Fetch(id, "fetchPortfolioData", address, chainId, tf, "getPortfolio", awaited)

\* updateMetrics up to its await (lines 367-375)
updateMetrics(id, address, chainId, tf) ==
    Fetch(id, "updateMetrics", address, chainId, tf, "getPortfolioMetrics", FALSE)

\* the snapshot of lines 249-257 (lastUpdated left out)
Snapshot(portfolioResponse, positionsResponse, metricsResponse) ==
    [totalValue |-> portfolioResponse.totalValue,
     activePositions |-> Len(positionsResponse),
     networks |-> {positionsResponse[k].chainName : k \in 1..Len(positionsResponse)},
     riskScore |-> calculateRiskScore(positionsResponse),
     positions |-> positionsResponse,
     metrics |-> metricsResponse]

\* the caller that awaits a run of fetchPortfolioData becomes runnable
Notify(f) ==
    IF f.awaited /\ mutation.pc = "refresh"
    THEN mutation' = [mutation EXCEPT !.pc = "resume"]
    ELSE UNCHANGED mutation

Wallets == UNCHANGED <<walletAddress, hookChainId, isContractConnected>>

\* ---------------------------------------------------------------- wallet
\* handleConnectWallet (lines 160-187), the wallet accepting, with the
\* effects of lines 359-387, both of whose dependencies changed.  The
\* effects run with the render after setChainId: before the finally of the
\* handler when the handler awaits connectToContract, after it when there
\* is no window.ethereum and so no await.
handleConnectWallet(chain, contractConnected, ethereum) ==
    /\ walletAddress = NoAddress
    /\ started + 2 <= MaxFetches
    /\ contractConnected => ethereum
    /\ walletAddress' = Wallet
    /\ hookChainId' = chain
    /\ isContractConnected' = (isContractConnected \/ contractConnected)
    /\ hookError' = NoError
    /\ loading' = ~ethereum
    /\ fetches' = fetches \cup
          {fetchPortfolioData(started + 1, Wallet, chain, timeframe, FALSE),
           updateMetrics(started + 2, Wallet, chain, timeframe)}
    /\ started' = started + 2
    /\ UNCHANGED <<portfolioData, hookPositions, hookMetrics, timeframe, anyFailed,
                   mutation, mutations, book>>

\* handleConnectWallet, the wallet refusing (lines 182-186)
handleConnectWallet_refused ==
    /\ walletAddress = NoAddress
    /\ hookError' = "Failed to connect wallet"
    /\ loading' = FALSE
    /\ UNCHANGED <<walletAddress, hookChainId, isContractConnected, portfolioData,
                   hookPositions, hookMetrics, timeframe, fetches, started, anyFailed,
                   mutation, mutations, book>>

\* handleDisconnectWallet (lines 191-198); the effects find no address
handleDisconnectWallet ==
    /\ walletAddress # NoAddress
    /\ walletAddress' = NoAddress
    /\ hookChainId' = NoChain
    /\ portfolioData' = NoPortfolio
    /\ hookPositions' = <<>>
    /\ hookMetrics' = <<>>
    /\ isContractConnected' = FALSE
    /\ UNCHANGED <<timeframe, loading, hookError, fetches, started, anyFailed,
                   mutation, mutations, book>>

\* setTimeframe, then the effect of lines 366-387
setTimeframe(tf) ==
    /\ tf # timeframe
    /\ timeframe' = tf
    /\ IF walletAddress # NoAddress
       THEN /\ started < MaxFetches
            /\ loading' = TRUE
            /\ fetches' = fetches \cup
                  {updateMetrics(started + 1, walletAddress, hookChainId, tf)}
            /\ started' = started + 1
       ELSE UNCHANGED <<loading, fetches, started>>
    /\ Wallets
    /\ UNCHANGED <<portfolioData, hookPositions, hookMetrics, hookError, anyFailed,
                   mutation, mutations, book>>

\* refreshPortfolio (lines 296-300), called by the page
refreshPortfolio ==
    /\ walletAddress # NoAddress
    /\ started < MaxFetches
    /\ loading' = TRUE
    /\ fetches' = fetches \cup
          {fetchPortfolioData(started + 1, walletAddress, hookChainId, timeframe, FALSE)}
    /\ started' = started + 1
    /\ Wallets
    /\ UNCHANGED <<portfolioData, hookPositions, hookMetrics, timeframe, hookError,
                   anyFailed, mutation, mutations, book>>

\* ---------------------------------------------------------------- requests
\* the backend answers the request run f awaits
ApiReturns(f) ==
    /\ f \in fetches
    /\ \/ /\ f.kind = "fetchPortfolioData" /\ f.pc = "getPortfolio"
          /\ fetches' = (fetches \ {f}) \cup
                {[f EXCEPT !.pc = "getPositions",
                           !.portfolioResponse = ApiClient_getPortfolio(f.address)]}
          /\ UNCHANGED <<portfolioData, hookPositions, hookMetrics, hookError, loading,
                         mutation>>
       \/ /\ f.kind = "fetchPortfolioData" /\ f.pc = "getPositions"
          /\ fetches' = (fetches \ {f}) \cup
                {[f EXCEPT !.pc = "getPortfolioMetrics",
                           !.positionsResponse = ApiClient_getPositions(f.address)]}
          /\ UNCHANGED <<portfolioData, hookPositions, hookMetrics, hookError, loading,
                         mutation>>
       \/ /\ f.kind = "fetchPortfolioData" /\ f.pc = "getPortfolioMetrics"
          /\ LET metricsResponse == ApiClient_getPortfolioMetrics(f.address, f.timeframe)
             IN /\ portfolioData' = Snapshot(f.portfolioResponse, f.positionsResponse,
                                             metricsResponse)
                /\ hookPositions' = f.positionsResponse
                /\ hookMetrics' = metricsResponse
          /\ hookError' = NoError
          /\ loading' = FALSE
          /\ fetches' = fetches \ {f}
          /\ Notify(f)
       \/ /\ f.kind = "updateMetrics"
          /\ hookMetrics' = ApiClient_getPortfolioMetrics(f.address, f.timeframe)
          /\ loading' = FALSE
          /\ fetches' = fetches \ {f}
          /\ UNCHANGED <<portfolioData, hookPositions, hookError, mutation>>
    /\ Wallets
    /\ UNCHANGED <<timeframe, started, anyFailed, mutations, book>>

\* the error of a failed request; it carries the request (error.config.url)
AxiosError(request) ==
    CASE request = "getPortfolio" -> "AxiosError /portfolio/{address}"
      [] request = "getPositions" -> "AxiosError /portfolio/{address}/positions"
      [] OTHER -> "AxiosError /portfolio/{address}/metrics"

catchFetch_noFinally(f) ==
    /\ hookError' = AxiosError(f.pc)
    /\ UNCHANGED loading

\* catch and finally of a run (lines 262-267, 377-382)
catchFetch(f) ==
    /\ hookError' = AxiosError(f.pc)
    /\ loading' = FALSE

\* the request run f awaits fails
ApiFails(f) ==
    /\ f \in fetches
    /\ catchFetch(f)
    /\ fetches' = fetches \ {f}
    /\ anyFailed' = TRUE
    /\ Notify(f)
    /\ Wallets
    /\ UNCHANGED <<portfolioData, hookPositions, hookMetrics, timeframe, started,
                   mutations, book>>

\* ---------------------------------------------------------------- mutations
\* addPosition / removePosition of the hook up to the first await
\* (lines 304-313, 332-341); the closure holds the state of its render
mutate(op) ==
    /\ mutation = NoMutation
    /\ mutations < MaxMutations
    /\ mutations' = mutations + 1
    /\ IF isContractConnected
       THEN /\ mutation' = [op |-> op, pc |-> "submit", address |-> walletAddress,
                            chainId |-> hookChainId, timeframe |-> timeframe]
            /\ loading' = TRUE
            /\ UNCHANGED hookError
       ELSE /\ hookError' = "Contract not connected. Please reconnect your wallet."
            /\ loading' = FALSE
            /\ UNCHANGED mutation
    /\ Wallets
    /\ UNCHANGED <<portfolioData, hookPositions, hookMetrics, timeframe, fetches,
                   started, anyFailed, book>>

usePortfolio_addPosition == mutate("addPosition")

usePortfolio_removePosition == mutate("removePosition")

SubmitReturns_refreshAtOnce ==
    /\ mutation.pc = "submit"
    /\ started < MaxFetches
    /\ loading' = TRUE
    /\ fetches' = fetches \cup
          {fetchPortfolioData(started + 1, mutation.address, mutation.chainId,
                              mutation.timeframe, TRUE)}
    /\ started' = started + 1
    /\ mutation' = [mutation EXCEPT !.pc = "refresh"]
    /\ Wallets
    /\ UNCHANGED <<portfolioData, hookPositions, hookMetrics, timeframe, hookError,
                   anyFailed, mutations, book>>

\* contractService.addPosition / removePosition returns the transaction
SubmitReturns ==
    /\ mutation.pc = "submit"
    /\ mutation' = [mutation EXCEPT !.pc = "mining"]
    /\ Wallets
    /\ UNCHANGED <<portfolioData, hookPositions, hookMetrics, timeframe, loading,
                   hookError, fetches, started, anyFailed, mutations, book>>

\* the ledger the backend reads, after the transaction of the mutation
mined(op) ==
    IF op = "addPosition" THEN Append(book, Landing[Len(book) + 1])
    ELSE SubSeq(book, 1, Len(book) - 1)

\* the transaction is included in a block; one that would revert is not
TransactionMined ==
    /\ mutation.pc = "mining"
    /\ IF mutation.op = "addPosition" THEN Len(book) < Len(Landing) ELSE book # <<>>
    /\ book' = mined(mutation.op)
    /\ mutation' = [mutation EXCEPT !.pc = "confirm"]
    /\ Wallets
    /\ UNCHANGED <<portfolioData, hookPositions, hookMetrics, timeframe, loading,
                   hookError, fetches, started, anyFailed, mutations>>

\* the awaited call of the mutation throws: catch and finally
\* (lines 322-327, 350-355)
mutationFails(pcs, err) ==
    /\ mutation.pc \in pcs
    /\ hookError' = err
    /\ loading' = FALSE
    /\ mutation' = NoMutation
    /\ Wallets
    /\ UNCHANGED <<portfolioData, hookPositions, hookMetrics, timeframe, fetches,
                   started, anyFailed, mutations, book>>

SubmitFails == mutationFails({"submit"}, "Contract not connected")

ConfirmFails == mutationFails({"mining", "confirm"}, "transaction failed")

\* waitForTransaction returns the receipt; refreshPortfolio of the closure
\* runs up to the first await of fetchPortfolioData (lines 316-319, 296-300)
ConfirmReturns ==
    /\ mutation.pc = "confirm"
    /\ IF mutation.address # NoAddress
       THEN /\ started < MaxFetches
            /\ loading' = TRUE
            /\ fetches' = fetches \cup
                  {fetchPortfolioData(started + 1, mutation.address, mutation.chainId,
                                      mutation.timeframe, TRUE)}
            /\ started' = started + 1
            /\ mutation' = [mutation EXCEPT !.pc = "refresh"]
       ELSE /\ mutation' = [mutation EXCEPT !.pc = "resume"]
            /\ UNCHANGED <<loading, fetches, started>>
    /\ Wallets
    /\ UNCHANGED <<portfolioData, hookPositions, hookMetrics, timeframe, hookError,
                   anyFailed, mutations, book>>

\* the mutation after its refresh: setError(null) and finally
\* (lines 321-327, 349-355)
MutationResumes ==
    /\ mutation.pc = "resume"
    /\ hookError' = NoError
    /\ loading' = FALSE
    /\ mutation' = NoMutation
    /\ Wallets
    /\ UNCHANGED <<portfolioData, hookPositions, hookMetrics, timeframe, fetches,
                   started, anyFailed, mutations, book>>

InitHook ==
    /\ LedgerDeployed
    /\ NoEnvironment
    /\ ServiceConstructed
    /\ NoChainAccess
    /\ NoFormatting
    /\ NoGraphCalls
    /\ NoMetricsCalls
    /\ HookMounted
    /\ book = <<PositionA>>

HookRest == UNCHANGED <<vars, serviceVars, chainVars, formatVars, graphVars, metricsVars>>

NextHook ==
    \/ \E chain \in WalletChains, ok, eth \in BOOLEAN :
          handleConnectWallet(chain, ok, eth) /\ HookRest
    \/ handleConnectWallet_refused /\ HookRest
    \/ handleDisconnectWallet /\ HookRest
    \/ \E tf \in TimeFrames : setTimeframe(tf) /\ HookRest
    \/ refreshPortfolio /\ HookRest
    \/ \E f \in fetches : ApiReturns(f) /\ HookRest
    \/ \E f \in fetches : ApiFails(f) /\ HookRest
    \/ usePortfolio_addPosition /\ HookRest
    \/ usePortfolio_removePosition /\ HookRest
    \/ SubmitReturns /\ HookRest
    \/ SubmitFails /\ HookRest
    \/ TransactionMined /\ HookRest
    \/ ConfirmReturns /\ HookRest
    \/ ConfirmFails /\ HookRest
    \/ MutationResumes /\ HookRest

SpecHook == InitHook /\ [][NextHook]_allVars

\* ---------------------------------------------------------------- C23
\* the risk figures of the positions, one without a figure counting as 0
RECURSIVE RiskFigures(_)
RiskFigures(ps) ==
    IF ps = <<>> THEN 0
    ELSE (IF ps[1].risk = NoRisk THEN 0 ELSE ps[1].risk) + RiskFigures(Tail(ps))

\* C23: the riskScore of a published snapshot is the sum of the risk figures
\* of its positions, a position without a figure counting as 0, divided by
\* the number of all its positions, and it is 0 when there is no position.
C23_RiskScoreIsMean ==
    portfolioData # NoPortfolio =>
        LET ps == portfolioData.positions
            score == portfolioData.riskScore
        IN /\ score.den > 0
           /\ IF ps = <<>> THEN score.num = 0
              ELSE score.num * Len(ps) = RiskFigures(ps) * score.den

\* a snapshot of two positions, one without a risk figure: 3 / 2
C23_Witness ==
    /\ portfolioData # NoPortfolio
    /\ Len(portfolioData.positions) = 2
    /\ \E k \in 1..2 : portfolioData.positions[k].risk = NoRisk
    /\ portfolioData.riskScore = [num |-> 3, den |-> 2]

\* ---------------------------------------------------------------- C24
\* the requests of run f that are sent and not yet answered: each request of
\* fetchPortfolioData is awaited before the next is made (lines 240-246)
Outstanding(f) == {f.pc}

\* C24: the fetches of one aggregation are issued concurrently: while the
\* first request of a run of fetchPortfolioData (getPortfolio) has not
\* returned, its second and third request (getPositions and
\* getPortfolioMetrics) are already out.
C24_FetchesConcurrent ==
    \A f \in fetches :
        (f.kind = "fetchPortfolioData" /\ "getPortfolio" \in Outstanding(f))
            => {"getPositions", "getPortfolioMetrics"} \subseteq Outstanding(f)

\* ---------------------------------------------------------------- C25
\* the states the ledger of the wallet can be in
LedgerStates == {SubSeq(Landing, 1, n) : n \in 0..Len(Landing)}

\* snapshot s describes ledger state b
Describes(s, b) ==
    /\ s.positions = b
    /\ s.totalValue = TotalValue(b)
    /\ s.activePositions = Len(b)
    /\ s.networks = {b[k].chainName : k \in 1..Len(b)}
    /\ s.riskScore = calculateRiskScore(b)

\* C25: every snapshot fetchPortfolioData publishes is consistent as of its
\* fetch window: its totalValue, activePositions, networks, riskScore and
\* positions all describe one and the same state of the ledger, also when a
\* mutation of the ledger lands while the run is in flight.
C25_SnapshotOfOneLedgerState ==
    portfolioData # NoPortfolio =>
        \E b \in LedgerStates : Describes(portfolioData, b)

\* ---------------------------------------------------------------- C26
\* run f of fetchPortfolioData ends in this step with its positions read
\* unanswered: the read failed
PositionsReadFails(f) ==
    /\ f \in fetches
    /\ f.kind = "fetchPortfolioData"
    /\ f.pc = "getPositions"
    /\ \A g \in fetches' : g.id # f.id

C26_Step ==
    \A f \in fetches :
        PositionsReadFails(f) =>
            /\ portfolioData' = portfolioData
            /\ hookPositions' = hookPositions
            /\ hookMetrics' = hookMetrics
            /\ hookError' # NoError
            /\ loading' = FALSE

RefreshStarts ==
    \E f \in fetches' : f.awaited /\ \A g \in fetches : g.id # f.id

\* a mutation of the hook ends in this step at its submission or at its
\* confirmation, or is refused because the contract is not connected
MutationFailsNow ==
    \/ mutation.pc \in {"submit", "mining", "confirm"} /\ mutation' = NoMutation
    \/ mutation = NoMutation /\ mutations' # mutations /\ mutation' = NoMutation

C27_Step ==
    /\ RefreshStarts =>
          /\ mutation.pc = "confirm"
          /\ mutation'.pc = "refresh"
          /\ book' = book
    /\ MutationFailsNow =>
          /\ ~RefreshStarts
          /\ fetches' = fetches
          /\ hookError' # NoError
    /\ (mutation = NoMutation /\ mutations' # mutations /\ ~isContractConnected) =>
          /\ mutation' = NoMutation
          /\ hookError' = "Contract not connected. Please reconnect your wallet."

\* C27: in addPosition and removePosition of the hook the refresh of the
\* portfolio starts only after the transaction was submitted and
\* waitForTransaction reported its confirmation; when the contract is not
\* connected, or the submission or the confirmation fails, no refresh is
\* started for the mutation and the error is recorded.
C27_RefreshAfterConfirmation == [][C27_Step]_allVars

\* the refresh of an addPosition is in flight, the position is on the ledger
C27_Witness ==
    /\ mutation.op = "addPosition"
    /\ mutation.pc = "refresh"
    /\ \E f \in fetches : f.awaited /\ f.kind = "fetchPortfolioData"
    /\ book = <<PositionA, PositionB>>

\* ---------------------------------------------------------------- C28
\* every run that was started has completed, none of them with a failure
AllCompleted == started > 0 /\ fetches = {} /\ ~anyFailed

\* C28: when several runs of fetchPortfolioData and updateMetrics were in
\* flight at once and all have completed, in whatever order, the published
\* metrics are those of the most recently requested address and timeframe
\* (the connected wallet and the selected timeframe), never those of an older
\* request that finished last.
C28_LatestRequestWins ==
    (walletAddress # NoAddress /\ AllCompleted) =>
        /\ hookMetrics # <<>>
        /\ hookMetrics[1].address = walletAddress
        /\ hookMetrics[1].timeframe = timeframe

\* ---------------------------------------------------------------- C29
\* C29: an abandoned aggregation is discarded: while no wallet is connected,
\* as after handleDisconnectWallet, portfolioData is null and positions and
\* metrics are empty, also after a run that was in flight at the disconnect
\* has completed.
C29_AbandonedIsDiscarded ==
    walletAddress = NoAddress =>
        /\ portfolioData = NoPortfolio
        /\ hookPositions = <<>>
        /\ hookMetrics = <<>>

\* ================================================================
\* ContractService: the order of its calls
\* ================================================================
UnboundOperations == {"addPosition", "removePosition", "getUserPositions", "getContract"}

NotConnected ==
    {"Contract not connected", "Contract not connected. Call connectToContract() first."}

C30_Step ==
    /\ (ServiceCalled("connectToContract") /\ signer = NoSigner) =>
          /\ svcCall'.status = "Provider not initialized. Call initialize() first."
          /\ contract' = contract
    /\ \A op \in UnboundOperations :
          (ServiceCalled(op) /\ contract = NoContract) =>
             /\ svcCall'.status \in NotConnected
             /\ UNCHANGED <<vars, contract>>
    /\ contract' # contract =>
          (ServiceCalled("connectToContract") /\ svcCall'.status = "ok")
    /\ (ServiceCalled("connectToContract") /\ svcCall'.status # "ok") =>
          /\ contract' = contract
          /\ (contract' # NoContract) = isConnected

\* C30: connectToContract fails unless initialize was called; addPosition,
\* removePosition, getUserPositions and getContract fail with a not-connected
\* error while no connectToContract has succeeded; a connectToContract that
\* fails leaves the bound contract and isConnected() as they were, so the
\* operations after a failed switch still go to the contract bound before.
C30_CallOrder == [][C30_Step]_allVars

\* a development build bound to the ledger of chain "1" has just failed to
\* connect to chain "5", which is in no table
C30_Witness ==
    /\ dev
    /\ isConnected
    /\ contract.address = LedgerAddress
    /\ svcCall = SvcCall("connectToContract", "5", 0, "", "", "", 0,
                         "Contract not deployed on chain")

====
